---- MODULE Spec2Model ----
(***************************************************************************)
(* A model of numis, a natural-language monetary parser.                   *)
(*                                                                         *)
(* Texts are sequences of lexemes (a word, a number literal, a digits +    *)
(* suffix run such as "10k", a currency symbol, one run of whitespace), so *)
(* an offset is a lexeme index: the map from character offsets is          *)
(* monotone, which keeps order and overlap of spans.  Regular expressions  *)
(* are kept as data and run by a backtracking matcher, Ends, that yields   *)
(* the possible ends of a match in the order the regex engine tries them.  *)
(*                                                                         *)
(* Amounts are exact decimals with three fractional digits, held as        *)
(* little-endian sequences of base-1000 limbs (limb 1 is the thousandths), *)
(* because Number.MAX_SAFE_INTEGER does not fit a TLC integer.             *)
(***************************************************************************)
EXTENDS Integers, Sequences, FiniteSets, TLC

VARIABLES
    nameToCodeCache,  \* currencyMapBuilder.ts: the module-level cache of the name index
    op,               \* the public call in progress: "none", "parseMoney", "parseAll"
    pc,               \* position inside the call
    text,             \* the call's input text
    options,          \* parseMoney's options.defaultCurrency ("undefined" when not given)
    context,          \* the PipelineContext threaded through the stages
    received,         \* the context the last stage was given, as it is after the stage
    outcome,          \* what the call returned or threw
    scan,             \* parseAll: pattern index, lastIndex, results, seen
    sweep,            \* parseAll: position of the sweep, filtered, lastEnd
    callers           \* the calls of getNameToCodeMap in progress, one record per caller

vars == <<nameToCodeCache, op, pc, text, options, context, received, outcome, scan, sweep,
          callers>>

UNDEF == "undefined"
NULL == "null"

-----------------------------------------------------------------------------
(* Decimal amounts: little-endian base-1000 limbs, limb 1 = thousandths.   *)

LimbBase == 10 * 10 * 10

\* e, with x evaluated first
After(x, e) == IF x = x THEN e ELSE e

\* without the leading zero limbs
Norm(a) == LET used == {i \in 1..Len(a) : a[i] # 0}
           IN IF used = {} THEN <<>>
              ELSE SubSeq(a, 1, CHOOSE i \in used : \A j \in used : j <= i)

Limb(a, i) == IF i >= 1 /\ i <= Len(a) THEN a[i] ELSE 0

\* a + b: limb by limb; a carry enters limb i when a lower limb overflows and
\* every limb between the two passes the carry on
NumAdd(a, b) ==
    LET n == (IF Len(a) > Len(b) THEN Len(a) ELSE Len(b)) + 1
        sum(i) == Limb(a, i) + Limb(b, i)
        carry(i) == \E j \in 1..(i - 1) :
                       /\ sum(j) >= LimbBase
                       /\ \A k \in (j + 1)..(i - 1) : sum(k) = LimbBase - 1
    IN Norm([i \in 1..n |-> (sum(i) + (IF carry(i) THEN 1 ELSE 0)) % LimbBase])

\* a * k for one limb k, moved up by shift limbs
MulLimb(a, k, shift) ==
    NumAdd([i \in 1..(Len(a) + shift) |-> IF i <= shift THEN 0 ELSE (a[i - shift] * k) % LimbBase],
           [i \in 1..(Len(a) + shift + 1) |->
               IF i <= shift + 1 THEN 0 ELSE (a[i - shift - 1] * k) \div LimbBase])

\* the sum of a * b[i] for the limbs lo..hi of b, each at its place
RECURSIVE MulAcc(_, _, _, _)
MulAcc(a, b, lo, hi) ==
    IF lo > hi THEN <<>>
    ELSE IF lo = hi THEN MulLimb(a, b[lo], lo - 1)
    ELSE LET mid == (lo + hi) \div 2
             left == MulAcc(a, b, lo, mid)
             right == MulAcc(a, b, mid + 1, hi)
         IN After(<<left, right>>, NumAdd(left, right))

\* a * b: the product of two 3-decimal numbers, cut back to 3 decimals
DropLimb(p) == Norm(IF p = <<>> THEN <<>> ELSE Tail(p))
NumMul(a, b) == DropLimb(MulAcc(a, b, 1, Len(b)))

RECURSIVE DivLimb(_, _, _, _)
DivLimb(a, d, i, r) ==
    IF i = 0 THEN <<>>
    ELSE LET cur == r * LimbBase + a[i]
         IN DivLimb(a, d, i - 1, cur % d) \o <<cur \div d>>

\* a / d for a small positive integer d (a minor-unit scale)
NumDivInt(a, d) == Norm(DivLimb(a, d, Len(a), 0))

\* a > b, both normalised
NumGt(a, b) ==
    IF Len(a) # Len(b) THEN Len(a) > Len(b)
    ELSE \E i \in 1..Len(a) : a[i] > b[i] /\ \A j \in (i + 1)..Len(a) : a[j] = b[j]
NumGe(a, b) == a = b \/ NumGt(a, b)

\* a non-negative integer below 10^9 as a decimal amount
IntLimbs(n) == Norm(<<n % LimbBase, (n \div LimbBase) % LimbBase, n \div (LimbBase * LimbBase)>>)
NumOfInt(n) ==
    Norm(<<0, n % LimbBase, (n \div LimbBase) % LimbBase, n \div (LimbBase * LimbBase)>>)

\* n thousandths (0.5 is NumOfMilli(500))
NumOfMilli(n) == Norm(IntLimbs(n))

\* Number.MAX_SAFE_INTEGER = 9007199254740991
MAX_SAFE_INTEGER == <<0, 991, 740, 254, 199, 7, 9>>

-----------------------------------------------------------------------------
(* A text is a sequence of lexemes and an offset is a number of lexemes.   *)
(* k is the kind: "w" a maximal run of letters (lower-cased), "num" a      *)
(* maximal run of digits, "sym" a currency symbol, "sp" one whitespace     *)
(* character, "comma" and "dot" the two separators, "hyphen" the character *)
(* "-", "dash" another dash, "lp" and "rp" the two parentheses, "apos" an   *)
(* apostrophe.  Adjacent lexemes                                            *)
(* touch: <<N(<<1, 0>>), W("k")>> is the text "10k" and                    *)
(* <<N(<<1>>), DOT, N(<<5>>)>> is "1.5".                                   *)
(* The texts considered keep a word whole wherever a pattern can stop: no  *)
(* word is a vocabulary word followed by letters a pattern accepts         *)
(* ("eighteen" = "eight" + "een").                                         *)

W(word) == [k |-> "w", w |-> word, ip |-> <<>>]
N(digits) == [k |-> "num", w |-> "", ip |-> digits]
SY(symbol) == [k |-> "sym", w |-> symbol, ip |-> <<>>]
SP == [k |-> "sp", w |-> " ", ip |-> <<>>]
COMMA == [k |-> "comma", w |-> ",", ip |-> <<>>]
DOT == [k |-> "dot", w |-> ".", ip |-> <<>>]
HYPHEN == [k |-> "hyphen", w |-> "-", ip |-> <<>>]
\* one of the characters U+2212 (minus sign), U+2013 (en dash), U+2014 (em dash)
DASH(name) == [k |-> "dash", w |-> name, ip |-> <<>>]
LP == [k |-> "lp", w |-> "(", ip |-> <<>>]
RP == [k |-> "rp", w |-> ")", ip |-> <<>>]
APOS == [k |-> "apos", w |-> "'", ip |-> <<>>]

Kinds == {"w", "num", "sym", "sp", "comma", "dot", "hyphen", "dash", "lp", "rp", "apos"}

\* \w characters: letters and digits
IsWordy(lex) == lex.k \in {"w", "num"}

\* the least and the greatest of a non-empty set of numbers
Min(S) == CHOOSE x \in S : \A y \in S : x <= y
Max(S) == CHOOSE x \in S : \A y \in S : x >= y

\* the positions of S in ascending order, and the elements of t at them
Ascending(S) == [k \in 1..Cardinality(S) |->
                   CHOOSE i \in S : Cardinality({j \in S : j < i}) = k - 1]
Pick(t, S) == LET at == Ascending(S) IN [k \in 1..Len(at) |-> t[at[k]]]

\* String.prototype.trim
TrimLeft(t) ==
    LET kept == {i \in 1..Len(t) : t[i].k # "sp"}
    IN IF kept = {} THEN <<>> ELSE SubSeq(t, Min(kept), Len(t))
TrimRight(t) ==
    LET kept == {i \in 1..Len(t) : t[i].k # "sp"}
    IN IF kept = {} THEN <<>> ELSE SubSeq(t, 1, Max(kept))
Trim(t) == TrimRight(TrimLeft(t))

\* str.replace(/\s+/g, " "): of a run of whitespace, only the last character stays
CollapseSpaces(t) ==
    Pick(t, {i \in 1..Len(t) : ~(t[i].k = "sp" /\ i < Len(t) /\ t[i + 1].k = "sp")})

\* input.toLowerCase().trim().replace(/\s+/g, " "): lexemes are lower-case already
normalize(t) == CollapseSpaces(Trim(t))

\* str.split(" ").filter(Boolean): the space-separated tokens, each a lexeme sequence
Tokens(t) ==
    LET starts == {i \in 1..Len(t) : t[i].k # "sp" /\ (i = 1 \/ t[i - 1].k = "sp")}
        first == Ascending(starts)
        last(i) == Min({j \in i..Len(t) : j = Len(t) \/ t[j + 1].k = "sp"})
    IN [k \in 1..Len(first) |-> SubSeq(t, first[k], last(first[k]))]

\* tokens.join(" "), for the tokens lo..hi
RECURSIVE JoinRange(_, _, _)
JoinRange(toks, lo, hi) ==
    IF lo > hi THEN <<>>
    ELSE IF lo = hi THEN toks[lo]
    ELSE LET mid == (lo + hi) \div 2
         IN JoinRange(toks, lo, mid) \o <<SP>> \o JoinRange(toks, mid + 1, hi)
JoinSpaces(toks) == JoinRange(toks, 1, Len(toks))

\* a token that is exactly one word
IsWord(tok) == Len(tok) = 1 /\ tok[1].k = "w"
WordOf(tok) == tok[1].w
\* key in obj, for a token and the own keys of a table
TokIn(tok, keys) == IsWord(tok) /\ WordOf(tok) \in keys

\* tokens.findIndex(t => t in table), 0 for -1 (indices are 1-based here)
FindIndexFrom(toks, keys, i) ==
    LET found == {j \in i..Len(toks) : TokIn(toks[j], keys)}
    IN IF found = {} THEN 0 ELSE Min(found)
FindIndex(toks, keys) == FindIndexFrom(toks, keys, 1)

\* /^\d+(?:\.\d+)?$/.test(candidate)
IsNumeric(t) == \/ Len(t) = 1 /\ t[1].k = "num"
                \/ Len(t) = 3 /\ t[1].k = "num" /\ t[2].k = "dot" /\ t[3].k = "num"
\* /^\d+$/.test(candidate)
IsDigits(t) == Len(t) = 1 /\ t[1].k = "num"

\* parseFloat / parseInt of a number literal: exact to three decimals.
\* The value of the digits, three digits to a limb from the right.
DigitAt(ds, i) == IF i >= 1 THEN ds[i] ELSE 0
DigitsValue(ds) ==
    Norm(<<0>> \o [j \in 1..((Len(ds) + 2) \div 3) |->
                     DigitAt(ds, Len(ds) - 3 * j + 1) * 100
                     + DigitAt(ds, Len(ds) - 3 * j + 2) * 10
                     + DigitAt(ds, Len(ds) - 3 * j + 3)])
FracMilli(fp) == (IF Len(fp) >= 1 THEN fp[1] * 100 ELSE 0)
                 + (IF Len(fp) >= 2 THEN fp[2] * 10 ELSE 0)
                 + (IF Len(fp) >= 3 THEN fp[3] ELSE 0)
\* of a text that IsNumeric
parseFloat(t) ==
    IF Len(t) = 1 THEN DigitsValue(t[1].ip)
    ELSE NumAdd(DigitsValue(t[1].ip), NumOfMilli(FracMilli(t[3].ip)))

\* str.replace(/-/g, " ")
SpacesForHyphens(t) == [i \in 1..Len(t) |-> IF t[i] = HYPHEN THEN SP ELSE t[i]]

\* two texts put end to end: digits, and letters, that now touch are one run
Join(a, b) ==
    IF a = <<>> THEN b
    ELSE IF b = <<>> THEN a
    ELSE LET x == a[Len(a)]
             y == b[1]
         IN IF x.k = "num" /\ y.k = "num"
            THEN SubSeq(a, 1, Len(a) - 1) \o <<N(x.ip \o y.ip)>> \o Tail(b)
            ELSE IF x.k = "w" /\ y.k = "w"
            THEN SubSeq(a, 1, Len(a) - 1) \o <<W(x.w \o y.w)>> \o Tail(b)
            ELSE a \o b

RECURSIVE Glue(_, _, _)
Glue(t, lo, hi) ==
    IF lo > hi THEN <<>>
    ELSE IF lo = hi THEN <<t[lo]>>
    ELSE LET mid == (lo + hi) \div 2
             left == Glue(t, lo, mid)
             right == Glue(t, mid + 1, hi)
         IN After(<<left, right>>, Join(left, right))

\* str.replace(/,/g, "")
removeCommas(t) ==
    LET kept == SelectSeq(t, LAMBDA x : x.k # "comma")
    IN Glue(kept, 1, Len(kept))

-----------------------------------------------------------------------------
(* Regular expressions as data, matched over lexemes.                      *)
(*   Ws(S)    one word of S            Cls(K)  one lexeme of a kind in K   *)
(*   W3       [a-z]{3} as a whole word WB      \b                          *)
(*   Cat, Alt sequence, alternation    Opt, Rep  greedy ? and {min,max}    *)
(*   Run(K, m) [K]{m,}, greedy         NUM     \d+(?:\.\d+)?               *)
(* Ends(p, t, s) lists the positions where a match of p that starts at     *)
(* position s (0..Len(t)) can end, in the engine's backtracking order.     *)

Ws(S) == [t |-> "w", s |-> S]
Cls(K) == [t |-> "cls", s |-> K]
W3 == [t |-> "w3"]
WLong == [t |-> "wlong"]
WB == [t |-> "wb"]
Cat(ps) == [t |-> "cat", ps |-> ps]
Alt(ps) == [t |-> "alt", ps |-> ps]
Opt(p) == [t |-> "rep", p |-> p, min |-> 0, max |-> 1]
Rep(p, min, max) == [t |-> "rep", p |-> p, min |-> min, max |-> max]
\* max = -1: no upper bound
Star(p) == Rep(p, 0, -1)
Plus(p) == Rep(p, 1, -1)
\* m or more lexemes of a kind in K
Run(K, m) == [t |-> "run", s |-> K, min |-> m]
\* \s, \s+, \s*
WS1 == Cls({"sp"})
WSP == Run({"sp"}, 1)
WSS == Run({"sp"}, 0)
\* [\s-], [\s-]+
SH1 == Cls({"sp", "hyphen"})
SHP == Run({"sp", "hyphen"}, 1)
\* \d+, \d+(?:\.\d+)?
INT == Cls({"num"})
NUM == [t |-> "num"]

AtBoundary(t, s) ==
    LET before == s >= 1 /\ IsWordy(t[s])
        after == s < Len(t) /\ IsWordy(t[s + 1])
    IN before # after

\* the sequences ss[lo..hi] put end to end
RECURSIVE Concat(_, _, _)
Concat(ss, lo, hi) ==
    IF lo > hi THEN <<>>
    ELSE IF lo = hi THEN ss[lo]
    ELSE Concat(ss, lo, (lo + hi) \div 2) \o Concat(ss, (lo + hi) \div 2 + 1, hi)

RECURSIVE Ends(_, _, _), EndsFrom(_, _, _), EndsCat(_, _, _, _, _),
          EndsAlt(_, _, _, _, _), EndsRep(_, _, _, _)

Ends(p, t, s) ==
    CASE p.t = "w" ->
           IF s < Len(t) /\ t[s + 1].k = "w" /\ t[s + 1].w \in p.s THEN <<s + 1>> ELSE <<>>
      [] p.t = "cls" ->
           IF s < Len(t) /\ t[s + 1].k \in p.s THEN <<s + 1>> ELSE <<>>
      [] p.t = "w3" ->
           IF s < Len(t) /\ t[s + 1].k = "w" /\ Len(t[s + 1].w) = 3 THEN <<s + 1>> ELSE <<>>
      [] p.t = "wlong" ->
           IF s < Len(t) /\ t[s + 1].k = "w" /\ Len(t[s + 1].w) >= 3 THEN <<s + 1>> ELSE <<>>
      [] p.t = "wb" -> IF AtBoundary(t, s) THEN <<s>> ELSE <<>>
      [] p.t = "run" ->
           LET n == Cardinality({k \in 1..(Len(t) - s) :
                                   \A j \in 1..k : t[s + j].k \in p.s})
           IN [i \in 1..(n - p.min + 1) |-> s + n + 1 - i]
      [] p.t = "num" ->
           IF s < Len(t) /\ t[s + 1].k = "num"
           THEN (IF s + 3 <= Len(t) /\ t[s + 2].k = "dot" /\ t[s + 3].k = "num"
                 THEN <<s + 3, s + 1>> ELSE <<s + 1>>)
           ELSE <<>>
      [] p.t = "cat" -> EndsCat(p.ps, 1, Len(p.ps), t, <<s>>)
      [] p.t = "alt" -> EndsAlt(p.ps, 1, Len(p.ps), t, s)
      [] p.t = "rep" -> EndsRep(p, 0, t, s)

\* the ends of p from each of the positions in es, in order
EndsFrom(p, t, es) ==
    IF Len(es) = 1 THEN Ends(p, t, es[1])
    ELSE Concat([j \in 1..Len(es) |-> Ends(p, t, es[j])], 1, Len(es))

\* the ends of ps[lo..hi], one after the other, from each of the positions in es
EndsCat(ps, lo, hi, t, es) ==
    IF lo > hi THEN es
    ELSE IF lo = hi THEN EndsFrom(ps[lo], t, es)
    ELSE LET left == EndsCat(ps, lo, (lo + hi) \div 2, t, es)
         IN IF left = <<>> THEN <<>> ELSE EndsCat(ps, (lo + hi) \div 2 + 1, hi, t, left)

\* the alternatives ps[i..j] in order
EndsAlt(ps, i, j, t, s) ==
    IF i > j THEN <<>>
    ELSE IF i = j THEN Ends(ps[i], t, s)
    ELSE EndsAlt(ps, i, (i + j) \div 2, t, s) \o EndsAlt(ps, (i + j) \div 2 + 1, j, t, s)

\* greedy: one more iteration first (an empty iteration is not repeated), then stop
EndsRep(p, n, t, s) ==
    LET more == IF p.max = -1 \/ n < p.max
                THEN SelectSeq(Ends(p.p, t, s), LAMBDA e : e > s)
                ELSE <<>>
        stop == IF n >= p.min THEN <<s>> ELSE <<>>
    IN IF more = <<>> THEN stop
       ELSE IF Len(more) = 1 THEN EndsRep(p, n + 1, t, more[1]) \o stop
       ELSE Concat([j \in 1..Len(more) |-> EndsRep(p, n + 1, t, more[j])], 1, Len(more))
            \o stop

\* regex.exec(t) from lastIndex: the leftmost match, as [s, e], or NoMatch (null)
NoMatch == [s |-> -1, e |-> -1]
\* the match at the least start that has one; ends[s] are the ends of the matches at s
FirstMatch(ends) ==
    LET starts == {s \in DOMAIN ends : ends[s] # <<>>}
    IN IF starts = {} THEN NoMatch
       ELSE [s |-> Min(starts), e |-> ends[Min(starts)][1]]

Exec(p, t, from) == FirstMatch([s \in from..Len(t) |-> Ends(p, t, s)])

\* the lastIndex after a match of a global regex
NextIndex(m) == IF m.e = m.s THEN m.e + 1 ELSE m.e

\* str.matchAll(regex): the successive matches
RECURSIVE MatchAll(_, _, _)
\* the match m, then the matches after it
MatchesFrom(p, t, m) ==
    IF m = NoMatch THEN <<>> ELSE <<m>> \o MatchAll(p, t, NextIndex(m))
MatchAll(p, t, from) == MatchesFrom(p, t, Exec(p, t, from))

\* the matched substring
Slice(t, m) == SubSeq(t, m.s + 1, m.e)

-----------------------------------------------------------------------------
(* The currency registry (the currency-codes package behind                 *)
(* currencyData.ts): a sample of its entries, in the package's order (by   *)
(* code).  A name is kept as its lower-cased words.                         *)

Registry == <<
    [code |-> "AED", currency |-> <<"uae", "dirham">>, digits |-> 2],
    [code |-> "CAD", currency |-> <<"canadian", "dollar">>, digits |-> 2],
    [code |-> "EUR", currency |-> <<"euro">>, digits |-> 2],
    [code |-> "GBP", currency |-> <<"pound", "sterling">>, digits |-> 2],
    [code |-> "INR", currency |-> <<"indian", "rupee">>, digits |-> 2],
    [code |-> "JPY", currency |-> <<"yen">>, digits |-> 0],
    [code |-> "KRW", currency |-> <<"won">>, digits |-> 0],
    [code |-> "KWD", currency |-> <<"kuwaiti", "dinar">>, digits |-> 3],
    [code |-> "MXN", currency |-> <<"mexican", "peso">>, digits |-> 2],
    [code |-> "RUB", currency |-> <<"russian", "ruble">>, digits |-> 2],
    [code |-> "THB", currency |-> <<"baht">>, digits |-> 2],
    [code |-> "TND", currency |-> <<"tunisian", "dinar">>, digits |-> 3],
    [code |-> "TRY", currency |-> <<"turkish", "lira">>, digits |-> 2],
    [code |-> "TTD", currency |-> <<"trinidad", "and", "tobago", "dollar">>, digits |-> 2],
    [code |-> "USD", currency |-> <<"us", "dollar">>, digits |-> 2] >>

getAllCurrencies == Registry

RegistryCodes == {Registry[i].code : i \in 1..Len(Registry)}

\* String.prototype.toUpperCase on the three-letter words of the vocabulary
UpperTable == [aed |-> "AED", cad |-> "CAD", eur |-> "EUR", gbp |-> "GBP", inr |-> "INR",
               jpy |-> "JPY", krw |-> "KRW", kwd |-> "KWD", mxn |-> "MXN", rub |-> "RUB",
               thb |-> "THB", tnd |-> "TND", try |-> "TRY", ttd |-> "TTD", usd |-> "USD",
               xyz |-> "XYZ"]
toUpperCase(w) == IF w \in DOMAIN UpperTable THEN UpperTable[w]
                  ELSE w

NoCurrencyInfo == [code |-> NULL, currency |-> <<>>, digits |-> -1]

\* currencyCodes.code(code.toUpperCase()) ?? null, null for an empty code
getCurrencyByCode(code) ==
    LET up == toUpperCase(code)
    IN IF code = "" \/ code = UNDEF \/ up \notin RegistryCodes THEN NoCurrencyInfo
       ELSE Registry[CHOOSE i \in 1..Len(Registry) : Registry[i].code = up]

-----------------------------------------------------------------------------
(* A Record<string, string>: its own entries in insertion order.  A key is *)
(* the sequence of the words of the string.                                 *)

\* the position of the entry of a key, 0 if it has none
KeyIndex(m, key) ==
    IF \E i \in 1..Len(m) : m[i].key = key
    THEN CHOOSE i \in 1..Len(m) : m[i].key = key
    ELSE 0

\* map[key] = code
MapSet(m, key, code) ==
    LET i == KeyIndex(m, key)
    IN IF i = 0 THEN Append(m, [key |-> key, code |-> code])
       ELSE [m EXCEPT ![i].code = code]

\* Object.assign(map, src) for the entries lo..hi of src, in their order
RECURSIVE MapAssign(_, _, _, _)
MapAssign(m, src, lo, hi) ==
    IF lo > hi THEN m
    ELSE IF lo = hi THEN MapSet(m, src[lo].key, src[lo].code)
    ELSE LET mid == (lo + hi) \div 2
             left == MapAssign(m, src, lo, mid)
         IN After(left, MapAssign(left, src, mid + 1, hi))

\* the all-lower-case property names every object inherits from Object.prototype
ObjectPrototypeKeys == {"constructor"}
ObjectFunction == "[Function: Object]"

\* map[word]: an own entry, else an inherited property, else undefined
MapGet(m, word) ==
    LET i == KeyIndex(m, <<word>>)
    IN IF i # 0 THEN m[i].code
       ELSE IF word \in ObjectPrototypeKeys THEN ObjectFunction
       ELSE UNDEF

\* Object.keys(map)
MapKeys(m) == [i \in 1..Len(m) |-> m[i].key]

\* the key-to-code content of a map
MapContent(m) == {<<m[i].key, m[i].code>> : i \in 1..Len(m)}

-----------------------------------------------------------------------------
(* currencyMapBuilder.ts                                                   *)

STOPWORDS == {"and", "the", "of"}

endsWithS(word) == SubSeq(word, Len(word), Len(word)) = "s"

\* the body of the inner loop for one word
AddWord(m, word, code) ==
    IF Len(word) > 2 /\ word \notin STOPWORDS
    THEN LET m2 == MapSet(m, <<word>>, code)
         IN IF ~endsWithS(word) THEN After(m2, MapSet(m2, <<word \o "s">>, code)) ELSE m2
    ELSE m

\* the inner loop over the words lo..hi of one currency name, in their order
RECURSIVE AddWords(_, _, _, _, _)
AddWords(m, words, code, lo, hi) ==
    IF lo > hi THEN m
    ELSE IF lo = hi THEN AddWord(m, words[lo], code)
    ELSE LET mid == (lo + hi) \div 2
             left == AddWords(m, words, code, lo, mid)
         IN After(left, AddWords(left, words, code, mid + 1, hi))

\* one iteration of the outer loop: the full name, then its words
AddCurrency(m, cur) ==
    LET named == MapSet(m, cur.currency, cur.code)
    IN After(named, AddWords(named, cur.currency, cur.code, 1, Len(cur.currency)))

overrides == <<
    [key |-> <<"dollar">>, code |-> "USD"], [key |-> <<"dollars">>, code |-> "USD"],
    [key |-> <<"euro">>, code |-> "EUR"], [key |-> <<"euros">>, code |-> "EUR"],
    [key |-> <<"pound">>, code |-> "GBP"], [key |-> <<"pounds">>, code |-> "GBP"],
    [key |-> <<"yen">>, code |-> "JPY"],
    [key |-> <<"rupee">>, code |-> "INR"], [key |-> <<"rupees">>, code |-> "INR"],
    [key |-> <<"peso">>, code |-> "MXN"], [key |-> <<"pesos">>, code |-> "MXN"],
    [key |-> <<"won">>, code |-> "KRW"],
    [key |-> <<"dirham">>, code |-> "AED"], [key |-> <<"dirhams">>, code |-> "AED"] >>

\* the outer loop over the currencies lo..hi, in their order
RECURSIVE AddCurrencies(_, _, _, _)
AddCurrencies(m, curs, lo, hi) ==
    IF lo > hi THEN m
    ELSE IF lo = hi THEN AddCurrency(m, curs[lo])
    ELSE LET mid == (lo + hi) \div 2
             left == AddCurrencies(m, curs, lo, mid)
         IN After(left, AddCurrencies(left, curs, mid + 1, hi))

\* Object.assign(map, overrides)
AssignOverrides(map) == After(map, MapAssign(map, overrides, 1, Len(overrides)))

\* the map a call of getNameToCodeMap builds when the cache is null
BuildNameToCodeMap ==
    AssignOverrides(AddCurrencies(<<>>, getAllCurrencies, 1, Len(getAllCurrencies)))

\* the module state of currencyMapBuilder.ts: the cache (null, or the map), and with it
\* the number of calls of getAllCurrencies() made so far, and whether a call has
\* been answered from the cache
NullCache == [isNull |-> TRUE, map |-> <<>>, enumerations |-> 0, reused |-> FALSE]

\* a variant that returns the map it built and leaves a map without entries in the cache
PublishEmptied(map, enumerations) ==
    [map |-> map,
     cache |-> [isNull |-> FALSE, map |-> <<>>, enumerations |-> enumerations,
                reused |-> FALSE]]

\* getNameToCodeMap(): [map: what it returns, cache: the cache it leaves]
\* nameToCodeCache = map; return map
Publish(map, enumerations) ==
    [map |-> map,
     cache |-> [isNull |-> FALSE, map |-> map, enumerations |-> enumerations,
                reused |-> FALSE]]

\* a variant without the early return: every call enumerates the registry and rebuilds
getNameToCodeMapRebuilding(cache) == Publish(BuildNameToCodeMap, cache.enumerations + 1)

\* a variant whose callers consume the shared map: a call answered from the cache
\* removes the entry it hands out first
getNameToCodeMapConsuming(cache) ==
    IF ~cache.isNull
    THEN [map |-> cache.map, cache |-> [cache EXCEPT !.reused = TRUE, !.map = Tail(@)]]
    ELSE Publish(BuildNameToCodeMap, cache.enumerations + 1)

getNameToCodeMap(cache) ==
    IF ~cache.isNull THEN [map |-> cache.map, cache |-> [cache EXCEPT !.reused = TRUE]]
    ELSE Publish(BuildNameToCodeMap, cache.enumerations + 1)

-----------------------------------------------------------------------------
(* Results of the parse functions: a value, or a thrown error, or null.    *)

Ok(value, currency) == [ok |-> TRUE, err |-> "", value |-> value, currency |-> currency]
Throw(e) == [ok |-> FALSE, err |-> e, value |-> <<>>, currency |-> ""]
Null == Throw(NULL)
OverflowError == "ValueOverflowError"
PlainError == "Error"
StructuralError == "MoneyParseError"
\* try { return f } catch { return null }
CatchAll(r) == IF r.ok THEN r ELSE Null
\* if (result > Number.MAX_SAFE_INTEGER) throw new ValueOverflowError(); return result
Checked(result, currency) ==
    IF NumGt(result, MAX_SAFE_INTEGER) THEN Throw(OverflowError) ELSE Ok(result, currency)

-----------------------------------------------------------------------------
(* patterns/wordedNumbers.ts                                               *)

BASIC_NUMBERS == [zero |-> 0, one |-> 1, two |-> 2, three |-> 3, four |-> 4, five |-> 5,
                  six |-> 6, seven |-> 7, eight |-> 8, nine |-> 9, ten |-> 10, eleven |-> 11,
                  twelve |-> 12, thirteen |-> 13, fourteen |-> 14, fifteen |-> 15,
                  sixteen |-> 16, seventeen |-> 17, eighteen |-> 18, nineteen |-> 19]
TENS == [twenty |-> 20, thirty |-> 30, forty |-> 40, fifty |-> 50, sixty |-> 60,
         seventy |-> 70, eighty |-> 80, ninety |-> 90]
\* 100, 1000, 1e6, 1e9 and 1e12 in limbs
SCALES == [hundred |-> <<0, 100>>, thousand |-> <<0, 0, 1>>, million |-> <<0, 0, 0, 1>>,
           billion |-> <<0, 0, 0, 0, 1>>, trillion |-> <<0, 0, 0, 0, 0, 1>>]
\* 1 / 3 is cut to three decimals
FRACTIONS == [half |-> <<500>>, halves |-> <<500>>, quarter |-> <<250>>,
              quarters |-> <<250>>, third |-> <<333>>, thirds |-> <<333>>]
FRACTION_MULTIPLIERS == [one |-> 1, two |-> 2, three |-> 3, four |-> 4, five |-> 5,
                         six |-> 6, seven |-> 7, eight |-> 8, nine |-> 9]

\* normalizeInput: lower-case, trim, collapse whitespace, remove /\band\b/g, trim.
\* The removed word leaves the whitespace around it.
RemoveAnd(t) ==
    [j \in 1..Len(t) |-> IF t[j] = W("and") /\ AtBoundary(t, j - 1) /\ AtBoundary(t, j)
                         THEN SP ELSE t[j]]
normalizeInput(t) == Trim(RemoveAnd(normalize(t)))

\* tokenize: split on whitespace, split the words at the hyphens, drop the empty tokens
tokenize(t) == Tokens(SpacesForHyphens(t))

IsW(tok, keys) == TokIn(tok, keys)

\* a variant of the scale branch that never moves current into total
ApplyScaleKeeping(st, scale, current) == [st EXCEPT !.current = current]

\* the scale branch: current is (current || 1) * scale; from a thousand on it
\* moves into total
ApplyScale(st, scale, current) ==
    IF NumGe(scale, NumOfInt(1000))
    THEN [st EXCEPT !.total = NumAdd(@, current), !.current = <<>>]
    ELSE [st EXCEPT !.current = current]

\* the body of the loop of parseWordedNumber for one token, on [ok, total, current];
\* ok is FALSE once a token has made the loop throw
WordedStep(st, token) ==
    IF ~st.ok THEN st
    ELSE IF IsW(token, DOMAIN BASIC_NUMBERS)
    THEN [st EXCEPT !.current = NumAdd(@, NumOfInt(BASIC_NUMBERS[WordOf(token)]))]
    ELSE IF IsW(token, DOMAIN TENS)
    THEN [st EXCEPT !.current = NumAdd(@, NumOfInt(TENS[WordOf(token)]))]
    ELSE IF IsW(token, DOMAIN SCALES)
    THEN ApplyScale(st, SCALES[WordOf(token)],
                    NumMul(IF st.current = <<>> THEN NumOfInt(1) ELSE st.current,
                           SCALES[WordOf(token)]))
    ELSE IF IsW(token, {"a"}) THEN st
    ELSE [st EXCEPT !.ok = FALSE]

\* the loop over the tokens lo..hi, in their order
RECURSIVE WordedLoop(_, _, _, _)
WordedLoop(tokens, lo, hi, st) ==
    IF lo > hi THEN st
    ELSE IF lo = hi THEN WordedStep(st, tokens[lo])
    ELSE LET mid == (lo + hi) \div 2
             left == WordedLoop(tokens, lo, mid, st)
         IN After(left, WordedLoop(tokens, mid + 1, hi, left))

\* after the loop: const result = total + current, then the ceiling
WordedResult(loop) ==
    IF ~loop.ok THEN Throw(PlainError) ELSE Checked(NumAdd(loop.total, loop.current), "")

\* parseWordedNumber from its tokens on
WordedTokens(tokens) ==
    IF tokens = <<>> THEN Throw(PlainError)
    ELSE WordedResult(WordedLoop(tokens, 1, Len(tokens),
                                 [ok |-> TRUE, total |-> <<>>, current |-> <<>>]))

parseWordedNumber(input) ==
    IF input = <<>> THEN Throw(PlainError) ELSE WordedTokens(tokenize(normalizeInput(input)))

\* extractMagnitude: the index of the first scale word at or after startIndex, 0 if none
extractMagnitude(toks, startIndex) == FindIndexFrom(toks, DOMAIN SCALES, startIndex)

\* tokens.filter((t) => t !== "a")
WithoutA(tokens) == SelectSeq(tokens, LAMBDA x : ~IsW(x, {"a"}))

\* parseFractionalWordedNumber from its filtered tokens on
FractionalTokens(ft) ==
    LET isMultFrac == Len(ft) >= 2 /\ IsW(ft[1], DOMAIN FRACTION_MULTIPLIERS)
                      /\ IsW(ft[2], DOMAIN FRACTIONS)
        hasFraction == IsW(ft[1], DOMAIN FRACTIONS) \/ isMultFrac
        fractionValue == IF IsW(ft[1], DOMAIN FRACTIONS) THEN FRACTIONS[WordOf(ft[1])]
                         ELSE NumMul(NumOfInt(FRACTION_MULTIPLIERS[WordOf(ft[1])]),
                                     FRACTIONS[WordOf(ft[2])])
        fractionEnd == IF IsW(ft[1], DOMAIN FRACTIONS) THEN 1 ELSE 2
        afterOf == IF fractionEnd + 1 <= Len(ft) /\ IsW(ft[fractionEnd + 1], {"of"})
                   THEN fractionEnd + 2 ELSE fractionEnd + 1
        magIndex == extractMagnitude(ft, afterOf)
    IN IF ft = <<>> THEN Throw(PlainError)
       ELSE IF Len(ft) = 1
            THEN (IF IsW(ft[1], DOMAIN FRACTIONS) THEN Ok(FRACTIONS[WordOf(ft[1])], "")
                  ELSE Throw(PlainError))
       ELSE IF Len(ft) = 2 /\ isMultFrac
            THEN Ok(NumMul(NumOfInt(FRACTION_MULTIPLIERS[WordOf(ft[1])]),
                           FRACTIONS[WordOf(ft[2])]), "")
       ELSE IF hasFraction /\ magIndex # 0
            THEN Checked(NumMul(fractionValue, SCALES[WordOf(ft[magIndex])]), "")
       ELSE Throw(PlainError)

parseFractionalWordedNumber(input) ==
    IF input = <<>> THEN Throw(PlainError)
    ELSE FractionalTokens(WithoutA(tokenize(normalizeInput(input))))

NumberWords == DOMAIN BASIC_NUMBERS \cup DOMAIN TENS \cup DOMAIN SCALES

\* buildFractionalWordedNumberRegex
FRACTIONAL_WORDED_NUMBER_REGEX ==
    Cat(<<WB,
          Opt(Cat(<<Ws({"a"}), WSP>>)),
          Opt(Cat(<<Ws(DOMAIN FRACTION_MULTIPLIERS), SHP>>)),
          Ws(DOMAIN FRACTIONS),
          Opt(Cat(<<WSP, Opt(Cat(<<Ws({"of"}), WSP>>)), Opt(Cat(<<Ws({"a"}), WSP>>)),
                    Ws(DOMAIN SCALES)>>)),
          WB>>)

\* buildWordedNumberRegex
WORDED_NUMBER_REGEX ==
    LET allWords == NumberWords \cup {"a", "and"}
    IN Cat(<<WB, Ws(allWords),
             Star(Cat(<<SH1, Opt(Cat(<<Ws({"and"}), SH1>>)), Ws(allWords)>>)),
             WB>>)

\* regex.exec(input), then parse(match[1]) inside try { } catch { return null }
FractionalMatched(input, match) ==
    IF match = NoMatch THEN Null
    ELSE CatchAll(parseFractionalWordedNumber(Slice(input, match)))

matchFractionalWordedNumber(input) ==
    IF input = <<>> THEN Null
    ELSE FractionalMatched(input, Exec(FRACTIONAL_WORDED_NUMBER_REGEX, input, 0))

WordedMatched(input, match) ==
    IF match = NoMatch THEN Null ELSE CatchAll(parseWordedNumber(Slice(input, match)))

matchWordedNumber(input) ==
    IF input = <<>> THEN Null
    ELSE WordedMatched(input, Exec(WORDED_NUMBER_REGEX, input, 0))

-----------------------------------------------------------------------------
(* patterns/slangTerms.ts                                                  *)

SLANG_MAP == [buck |-> [currency |-> "USD", unit |-> 1],
              bucks |-> [currency |-> "USD", unit |-> 1],
              quid |-> [currency |-> "GBP", unit |-> 1],
              quids |-> [currency |-> "GBP", unit |-> 1],
              fiver |-> [currency |-> "GBP", unit |-> 5],
              fivers |-> [currency |-> "GBP", unit |-> 5],
              tenner |-> [currency |-> "GBP", unit |-> 10],
              tenners |-> [currency |-> "GBP", unit |-> 10],
              grand |-> [currency |-> "USD", unit |-> 1000],
              grands |-> [currency |-> "USD", unit |-> 1000]]

\* in thousandths
CENTS_WORD_MAP == [ten |-> 100, twenty |-> 200, thirty |-> 300, forty |-> 400, fifty |-> 500,
                   sixty |-> 600, seventy |-> 700, eighty |-> 800, ninety |-> 900]

\* try { return f } catch { return g }
OrElse(f, g) == IF f.ok THEN f ELSE g

\* parseQuantity once the tokens are joined and trimmed
QuantityOf(candidate) ==
    IF candidate = <<>> THEN Ok(NumOfInt(1), "")
    ELSE IF candidate = <<W("a")>> \/ candidate = <<W("an")>> THEN Ok(NumOfInt(1), "")
    ELSE IF candidate = <<W("half")>> \/ candidate = <<W("half"), SP, W("a")>>
         THEN Ok(NumOfMilli(500), "")
    ELSE IF IsNumeric(candidate) THEN Ok(parseFloat(candidate), "")
    ELSE OrElse(parseFractionalWordedNumber(candidate),
                CatchAll(parseWordedNumber(candidate)))

parseQuantity(tokens) ==
    IF tokens = <<>> THEN Ok(NumOfInt(1), "") ELSE QuantityOf(Trim(JoinSpaces(tokens)))

\* tokens.slice(from, to) with 0-based bounds, clipped
Sl(tokens, from, to) ==
    LET f == IF from < 0 THEN 0 ELSE from
        e == IF to > Len(tokens) THEN Len(tokens) ELSE to
    IN IF f >= e THEN <<>> ELSE SubSeq(tokens, f + 1, e)

\* parseSlangTerm from the parsed quantity on; slangIndex is 0-based
SlangValue(tokens, slangIndex, quantity) ==
    LET slangToken == WordOf(tokens[slangIndex + 1])
        unit == SLANG_MAP[slangToken].unit
        hasCents == slangToken \in {"buck", "bucks"} /\ unit = 1
                    /\ slangIndex + 2 <= Len(tokens)
                    /\ TokIn(tokens[slangIndex + 2], DOMAIN CENTS_WORD_MAP)
        base == NumMul(quantity.value, NumOfInt(unit))
    IN IF ~quantity.ok THEN Throw(PlainError)
       ELSE Checked(IF hasCents
                    THEN NumAdd(base, NumOfMilli(CENTS_WORD_MAP[WordOf(tokens[slangIndex + 2])]))
                    ELSE base,
                    SLANG_MAP[slangToken].currency)

\* parseSlangTerm from its tokens on
SlangTokens(tokens, slangIndex) ==
    IF slangIndex = -1 THEN Throw(PlainError)
    ELSE SlangValue(tokens, slangIndex, parseQuantity(Sl(tokens, slangIndex - 6, slangIndex)))

SlangTokenized(tokens) == SlangTokens(tokens, FindIndex(tokens, DOMAIN SLANG_MAP) - 1)

parseSlangTerm(input) ==
    IF input = <<>> THEN Throw(PlainError) ELSE SlangTokenized(Tokens(normalize(input)))

QuantityWords ==
    {"a", "an", "half", "halves", "quarter", "quarters", "third", "thirds", "of"}
    \cup (NumberWords \ {"zero"})

\* buildSlangRegex
SLANG_REGEX ==
    Cat(<<WB,
          Rep(Cat(<<Alt(<<NUM, Ws(QuantityWords)>>), WSP>>), 0, 6),
          Ws(DOMAIN SLANG_MAP),
          Opt(Cat(<<WSP, Ws(DOMAIN CENTS_WORD_MAP)>>)),
          WB>>)

SlangMatched(input, match) ==
    IF match = NoMatch THEN Null ELSE CatchAll(parseSlangTerm(Slice(input, match)))

matchSlangTerm(input) ==
    IF input = <<>> THEN Null ELSE SlangMatched(input, Exec(SLANG_REGEX, input, 0))

-----------------------------------------------------------------------------
(* patterns/contextualPhrases.ts.  nameToCode is the map getNameToCodeMap() *)
(* returns.                                                                 *)

ARTICLES == {"a", "an", "the"}

\* currency "null": any currency with minor units
MINOR_UNIT_ALIASES == [cent |-> [currency |-> NULL, scale |-> 100],
                       cents |-> [currency |-> NULL, scale |-> 100],
                       penny |-> [currency |-> "GBP", scale |-> 100],
                       pennies |-> [currency |-> "GBP", scale |-> 100],
                       pence |-> [currency |-> "GBP", scale |-> 100]]

\* while (stripped.length > 0 && ARTICLES.has(stripped[0])) stripped.shift()
StripArticles(tokens) ==
    LET kept == {i \in 1..Len(tokens) : ~TokIn(tokens[i], ARTICLES)}
    IN IF kept = {} THEN <<>> ELSE SubSeq(tokens, Min(kept), Len(tokens))

\* try { return parseFractionalWordedNumber(candidate) }
\* catch { return parseWordedNumber(candidate) }
WordedAmount(candidate) ==
    OrElse(parseFractionalWordedNumber(candidate), parseWordedNumber(candidate))

\* a number followed by magnitude words: magnitudeValue is what parseWordedNumber made
\* of the words (Null when the tokens do not start with a number); a failure falls
\* through to the worded forms
NumberTimesWords(stripped, magnitudeValue) ==
    IF magnitudeValue.ok THEN Ok(NumMul(parseFloat(stripped[1]), magnitudeValue.value), "")
    ELSE WordedAmount(JoinSpaces(stripped))

\* parseAmountTokens once the leading articles are gone
AmountOf(stripped) ==
    IF stripped = <<>> THEN Ok(NumOfInt(1), "")
    ELSE IF IsNumeric(JoinSpaces(stripped)) THEN Ok(parseFloat(JoinSpaces(stripped)), "")
    ELSE NumberTimesWords(stripped,
                          IF Len(stripped) > 1 /\ IsNumeric(stripped[1])
                          THEN parseWordedNumber(JoinSpaces(Tail(stripped)))
                          ELSE Null)

parseAmountTokens(tokens) ==
    IF tokens = <<>> THEN Throw(PlainError) ELSE AmountOf(StripArticles(tokens))

\* "null" when the token names no currency
CodeOr(byCode, byName) ==
    IF byCode # NoCurrencyInfo THEN byCode.code
    ELSE IF byName = UNDEF THEN NULL
    ELSE byName

lookupCurrency(token, nameToCode) ==
    IF ~IsWord(token) THEN NULL
    ELSE CodeOr(IF Len(WordOf(token)) = 3 THEN getCurrencyByCode(toUpperCase(WordOf(token)))
                ELSE NoCurrencyInfo,
                MapGet(nameToCode, WordOf(token)))

RECURSIVE Pow10(_)
Pow10(n) == IF n = 0 THEN 1 ELSE 10 * Pow10(n - 1)

\* currencyInfo?.digits ?? 2
InfoDigits(currencyInfo) == IF currencyInfo = NoCurrencyInfo THEN 2 ELSE currencyInfo.digits
DigitsOf(currency) == InfoDigits(getCurrencyByCode(currency))

\* a variant that gives a currency without decimal digits the scale 10 ** 0
ScaleOfAnyDigits(digits) == Pow10(digits)

\* digits === 0 ? null : 10 ** digits; 0 stands for null
ScaleOf(digits) == IF digits = 0 THEN 0 ELSE Pow10(digits)

minorScaleForCurrency(currency, minorToken) ==
    LET minor == MINOR_UNIT_ALIASES[WordOf(minorToken)]
    IN IF ~TokIn(minorToken, DOMAIN MINOR_UNIT_ALIASES) THEN 0
       ELSE IF minor.currency # NULL /\ minor.currency # currency THEN 0
       ELSE ScaleOf(DigitsOf(currency))

getMinorUnitScale(currency) == ScaleOf(DigitsOf(currency))

MinorAmountOf(candidate) ==
    IF IsDigits(candidate) THEN Ok(parseFloat(candidate), "")
    ELSE CatchAll(parseWordedNumber(candidate))

tryParseMinorAmount(tokens) == IF tokens = <<>> THEN Null ELSE MinorAmountOf(JoinSpaces(tokens))

\* the index (0-based) of the first token that names a currency, -1 if none
CurrencyIndexFrom(tokens, nameToCode, i) ==
    LET found == {j \in i..(Len(tokens) - 1) : lookupCurrency(tokens[j + 1], nameToCode) # NULL}
    IN IF found = {} THEN -1 ELSE Min(found)

\* a variant that drops a minor amount that is not below the scale
ExplicitMinorDropping(currencyCode, majorAmount, minorAmount, scale) ==
    IF ~minorAmount.ok THEN minorAmount
    ELSE IF scale = 0 THEN Throw(PlainError)
    ELSE IF NumGe(minorAmount.value, NumOfInt(scale)) THEN Checked(majorAmount.value, currencyCode)
    ELSE Checked(NumAdd(majorAmount.value, NumDivInt(minorAmount.value, scale)), currencyCode)

\* a variant that takes every minor unit for a hundredth
ExplicitMinorHundredths(currencyCode, majorAmount, minorAmount, scale) ==
    IF ~minorAmount.ok THEN minorAmount
    ELSE IF scale = 0 THEN Throw(PlainError)
    ELSE IF NumGe(minorAmount.value, NumOfInt(scale)) THEN Throw(PlainError)
    ELSE Checked(NumAdd(majorAmount.value, NumDivInt(minorAmount.value, 100)), currencyCode)

\* the explicit minor unit ("and 23 cents"); scale 0 stands for null
ExplicitMinor(currencyCode, majorAmount, minorAmount, scale) ==
    IF ~minorAmount.ok THEN minorAmount
    ELSE IF scale = 0 THEN Throw(PlainError)
    ELSE IF NumGe(minorAmount.value, NumOfInt(scale)) THEN Throw(PlainError)
    ELSE Checked(NumAdd(majorAmount.value, NumDivInt(minorAmount.value, scale)), currencyCode)

\* the colloquial trailing number ("five dollars fifty"), when there are tokens after
\* the currency and no connector
ColloquialMinor(currencyCode, majorAmount, trailing, cscale, cminor) ==
    Checked(IF trailing /\ cscale # 0 /\ cminor.ok /\ ~NumGe(cminor.value, NumOfInt(cscale))
            THEN NumAdd(majorAmount.value, NumDivInt(cminor.value, cscale))
            ELSE majorAmount.value,
            currencyCode)

\* parseContextualPhrase from the currency and the major amount on
PhraseValue(currencyCode, majorAmount, afterCurrency) ==
    LET hasAnd == afterCurrency # <<>> /\ afterCurrency[1] = <<W("and")>>
        afterConnector == IF hasAnd THEN Tail(afterCurrency) ELSE afterCurrency
        minorIndex == FindIndex(afterConnector, DOMAIN MINOR_UNIT_ALIASES) - 1
    IN IF ~majorAmount.ok THEN majorAmount
       ELSE IF minorIndex # -1
            THEN ExplicitMinor(currencyCode, majorAmount,
                               parseAmountTokens(Sl(afterConnector, 0, minorIndex)),
                               minorScaleForCurrency(currencyCode, afterConnector[minorIndex + 1]))
       ELSE ColloquialMinor(currencyCode, majorAmount, afterCurrency # <<>> /\ ~hasAnd,
                            getMinorUnitScale(currencyCode), tryParseMinorAmount(afterCurrency))

\* parseContextualPhrase from the index (0-based) of the currency token on
PhraseAt(tokens, nameToCode, currencyIndex) ==
    IF currencyIndex = -1 THEN Throw(PlainError)
    ELSE PhraseValue(lookupCurrency(tokens[currencyIndex + 1], nameToCode),
                     parseAmountTokens(Sl(tokens, 0, currencyIndex)),
                     Sl(tokens, currencyIndex + 1, Len(tokens)))

PhraseTokens(tokens, nameToCode) ==
    IF tokens = <<>> THEN Throw(PlainError)
    ELSE PhraseAt(tokens, nameToCode, CurrencyIndexFrom(tokens, nameToCode, 0))

parseContextualPhrase(input, nameToCode) ==
    IF input = <<>> THEN Throw(PlainError)
    ELSE PhraseTokens(Tokens(normalize(input)), nameToCode)

\* a key of the name map as a pattern: its words, one space between them
KeyPattern(key) ==
    Cat([i \in 1..(2 * Len(key) - 1) |-> IF i % 2 = 1 THEN Ws({key[(i + 1) \div 2]}) ELSE WS1])

MagnitudeWords == {"hundred", "thousand", "million", "billion", "trillion"}

\* the pattern matchContextualPhrase builds from the keys of the name map
ContextualPattern(nameToCode) ==
    LET keys == MapKeys(nameToCode)
        currencyPattern == Alt([i \in 1..Len(keys) |-> KeyPattern(keys[i])] \o <<W3>>)
        minorPattern == Ws(DOMAIN MINOR_UNIT_ALIASES)
        wordedNumberPattern ==
            Cat(<<Ws(NumberWords),
                  Star(Cat(<<SHP, Opt(Cat(<<Ws({"and"}), WSP>>)), Ws(NumberWords)>>))>>)
        digitMagnitudePattern ==
            Cat(<<NUM, WSP, Ws(MagnitudeWords), Star(Cat(<<WSP, Ws(NumberWords)>>))>>)
        fractionalMagnitudePattern ==
            Cat(<<Opt(Cat(<<Ws(NumberWords), WSP>>)), Ws(DOMAIN FRACTIONS),
                  Opt(Cat(<<WSP, Opt(Cat(<<Ws({"of"}), WSP>>)), Opt(Cat(<<Ws({"a"}), WSP>>)),
                            Ws(MagnitudeWords)>>))>>)
        amount == Alt(<<digitMagnitudePattern, fractionalMagnitudePattern,
                        wordedNumberPattern, NUM>>)
    IN Cat(<<WB,
             Alt(<<Cat(<<Ws(ARTICLES), WSP, Opt(amount), WSS, currencyPattern>>),
                   Cat(<<amount, WSP, currencyPattern>>)>>),
             Opt(Alt(<<Cat(<<WSP, Opt(Cat(<<Ws({"and"}), WSP>>)),
                             Alt(<<wordedNumberPattern, NUM>>), WSP, minorPattern>>),
                       Cat(<<WSP, Ws(NumberWords), Star(Cat(<<SH1, Ws(NumberWords)>>))>>)>>)),
             WB>>)

\* the first of the results that is a value, null if none is
FirstOk(results) ==
    LET parsed == {j \in DOMAIN results : results[j].ok}
    IN IF parsed = {} THEN Null ELSE results[Min(parsed)]

\* for (const match of matches) try { return parse(match[1]) } catch { continue }
FirstParsed(ms, i, t, nameToCode) ==
    FirstOk([j \in i..Len(ms) |-> parseContextualPhrase(Slice(t, ms[j]), nameToCode)])

ContextualNormalized(normalized, nameToCode) ==
    FirstParsed(MatchAll(ContextualPattern(nameToCode), normalized, 0), 1,
                normalized, nameToCode)

matchContextualPhrase(input, nameToCode) ==
    IF input = <<>> THEN Null ELSE ContextualNormalized(normalize(input), nameToCode)

\* lookupCurrency calls getNameToCodeMap() unless the token is a registry code
AsksForMap(token) ==
    ~(IsWord(token) /\ Len(WordOf(token)) = 3
      /\ getCurrencyByCode(toUpperCase(WordOf(token))) # NoCurrencyInfo)

\* whether the loop of parseContextualPhrase that looks for the currency token, which
\* stops at that token, calls getNameToCodeMap()
LooksUpNames(tokens, currencyIndex) ==
    \E i \in 1..(IF currencyIndex = -1 THEN Len(tokens) ELSE currencyIndex + 1) :
        AsksForMap(tokens[i])

NeedsNameToCodeMap(input, nameToCode) ==
    LooksUpNames(Tokens(normalize(input)),
                 CurrencyIndexFrom(Tokens(normalize(input)), nameToCode, 0))

-----------------------------------------------------------------------------
(* patterns/minorUnitsOnly.ts                                               *)

\* the default currency of each minor unit token
MINOR_UNIT_MAP == [cent |-> "USD", cents |-> "USD",
                   penny |-> "GBP", pennies |-> "GBP", pence |-> "GBP"]

\* the amount before the minor unit token, null when there is none or it does not parse
parseAmount(tokens) ==
    IF tokens = <<>> THEN Null
    ELSE IF IsNumeric(JoinSpaces(tokens)) THEN Ok(parseFloat(JoinSpaces(tokens)), "")
    ELSE CatchAll(parseWordedNumber(JoinSpaces(tokens)))

\* getMinorUnitScale of minorUnitsOnly.ts: 0 stands for null
getMinorUnitScale_minorUnitsOnly(currency) ==
    IF getCurrencyByCode(currency) = NoCurrencyInfo THEN 0
    ELSE ScaleOf(getCurrencyByCode(currency).digits)

\* parseMinorUnitOnly from the scale on
MinorUnitValue(currency, scale, amount) ==
    IF scale = 0 THEN Throw(PlainError)
    ELSE IF ~amount.ok THEN Throw(PlainError)
    ELSE IF NumGe(amount.value, NumOfInt(scale)) THEN Throw(PlainError)
    ELSE Checked(NumDivInt(amount.value, scale), currency)

\* const currency = defaultCurrency ?? minorUnitInfo.defaultCurrency
MinorUnitCurrency(tokens, minorUnitIndex, currency) ==
    MinorUnitValue(currency, getMinorUnitScale_minorUnitsOnly(currency),
                   parseAmount(Sl(tokens, 0, minorUnitIndex)))

\* parseMinorUnitOnly from the index (0-based) of the minor unit token on
MinorUnitAt(tokens, minorUnitIndex, defaultCurrency) ==
    IF minorUnitIndex = -1 THEN Throw(PlainError)
    ELSE MinorUnitCurrency(tokens, minorUnitIndex,
                           IF defaultCurrency # UNDEF THEN defaultCurrency
                           ELSE MINOR_UNIT_MAP[WordOf(tokens[minorUnitIndex + 1])])

MinorUnitTokens(tokens, defaultCurrency) ==
    MinorUnitAt(tokens, FindIndex(tokens, DOMAIN MINOR_UNIT_MAP) - 1, defaultCurrency)

parseMinorUnitOnly(input, defaultCurrency) ==
    IF input = <<>> THEN Throw(PlainError)
    ELSE MinorUnitTokens(Tokens(normalize(input)), defaultCurrency)

-----------------------------------------------------------------------------
(* patterns/numericWordCombos.ts: digits followed by a shorthand magnitude *)
(* suffix (k, m, b, bn); an amount above the ceiling is an overflow.       *)

\* 1e3, 1e6 and 1e9 in limbs
COMBO_SUFFIXES == [k |-> <<0, 0, 1>>, m |-> <<0, 0, 0, 1>>, b |-> <<0, 0, 0, 0, 1>>,
                   bn |-> <<0, 0, 0, 0, 1>>]

COMBO_REGEX == Cat(<<NUM, Ws(DOMAIN COMBO_SUFFIXES), WB>>)

\* the number times its suffix, with the ceiling
ComboMatched(input, match) ==
    IF match = NoMatch THEN Null
    ELSE Checked(NumMul(parseFloat(SubSeq(input, match.s + 1, match.e - 1)),
                        COMBO_SUFFIXES[input[match.e].w]), "")

matchNumericWordCombo(input) ==
    IF input = <<>> THEN Null ELSE ComboMatched(input, Exec(COMBO_REGEX, input, 0))

-----------------------------------------------------------------------------
(* patterns/regionalFormats.ts.  A separator is named by the kind of its    *)
(* lexeme.                                                                   *)

FormatConfig(thousands, decimal, type) ==
    [thousandsSeparator |-> thousands, decimalSeparator |-> decimal, type |-> type]
US == FormatConfig("comma", "dot", "us")
EU == FormatConfig("dot", "comma", "eu")
SWISS == FormatConfig("apos", "dot", "swiss")
FRENCH == FormatConfig("sp", "comma", "french")
INDIAN == FormatConfig("comma", "dot", "indian")

\* numberStr.includes(c), numberStr.lastIndexOf(c), (numberStr.match(/c/g) || []).length
Includes(t, kind) == \E i \in 1..Len(t) : t[i].k = kind
LastIndexOf(t, kind) == Max({i \in 1..Len(t) : t[i].k = kind})
CountOf(t, kind) == Cardinality({i \in 1..Len(t) : t[i].k = kind})
\* numberStr.match(/c(\d+)$/): match[1].length, 0 when there is no match
TrailingDigits(t, kind) ==
    IF Len(t) >= 2 /\ t[Len(t)].k = "num" /\ t[Len(t) - 1].k = kind
    THEN Len(t[Len(t)].ip) ELSE 0

\* /^\d{1,2},\d{2}(?:,\d{2})*,\d{3}(?:\.\d+)?$/
isIndianFormat(t) ==
    LET body == IF TrailingDigits(t, "dot") > 0 THEN SubSeq(t, 1, Len(t) - 2) ELSE t
        n == Len(body)
    IN /\ n >= 5
       /\ n % 2 = 1
       /\ \A i \in 1..n : body[i].k = (IF i % 2 = 1 THEN "num" ELSE "comma")
       /\ Len(body[1].ip) \in {1, 2}
       /\ Len(body[n].ip) = 3
       /\ \A i \in 3..(n - 2) : i % 2 = 1 => Len(body[i].ip) = 2

\* both comma and period present
CommaAndPeriod(t) ==
    IF LastIndexOf(t, "comma") > LastIndexOf(t, "dot") THEN EU
    ELSE IF isIndianFormat(t) THEN INDIAN
    ELSE US

\* a variant that takes every comma for a decimal comma
OnlyCommaDecimal(t) == EU

\* only comma present
OnlyComma(t) ==
    LET digitsAfterComma == TrailingDigits(t, "comma")
    IN IF digitsAfterComma > 0 /\ digitsAfterComma <= 2 THEN EU
       ELSE IF digitsAfterComma = 3 THEN US
       ELSE IF CountOf(t, "comma") > 1 THEN US
       ELSE US

\* a variant that takes a single period before three or more digits for a thousands
\* separator
OnlyPeriodGrouping(t) ==
    IF CountOf(t, "dot") > 1 \/ TrailingDigits(t, "dot") >= 3 THEN EU ELSE US

\* only period present
OnlyPeriod(t) ==
    IF CountOf(t, "dot") > 1 THEN EU
    ELSE IF TrailingDigits(t, "dot") > 0 THEN US
    ELSE US

detectRegionalFormat(numberStr) ==
    LET hasComma == Includes(numberStr, "comma")
        hasPeriod == Includes(numberStr, "dot")
        hasApostrophe == Includes(numberStr, "apos")
        hasSpace == Includes(numberStr, "sp")
    IN IF hasApostrophe THEN SWISS
       ELSE IF hasSpace /\ hasComma /\ ~hasPeriod THEN FRENCH
       ELSE IF hasComma /\ hasPeriod THEN CommaAndPeriod(numberStr)
       ELSE IF hasComma THEN OnlyComma(numberStr)
       ELSE IF hasPeriod THEN OnlyPeriod(numberStr)
       ELSE US

\* a number or NaN
NotANumber == [isNaN |-> TRUE]
Number(value) == [isNaN |-> FALSE, value |-> value]

\* parseFloat of any text: the longest prefix that is a number literal, after leading
\* white space
ParseFloatPrefix(t) ==
    LET str == TrimLeft(t)
    IN IF str = <<>> THEN NotANumber
       ELSE IF str[1].k = "dot" /\ Len(str) >= 2 /\ str[2].k = "num"
       THEN Number(NumOfMilli(FracMilli(str[2].ip)))
       ELSE IF str[1].k # "num" THEN NotANumber
       ELSE IF Len(str) >= 3 /\ str[2].k = "dot" /\ str[3].k = "num"
       THEN Number(parseFloat(SubSeq(str, 1, 3)))
       ELSE Number(parseFloat(<<str[1]>>))

\* normalized.replace(new RegExp(separator, "g"), "")
RemoveAll(t, kind) ==
    LET kept == SelectSeq(t, LAMBDA x : x.k # kind)
    IN Glue(kept, 1, Len(kept))
\* normalized.replace(new RegExp(separator, "g"), ".")
ToPeriods(t, kind) == [i \in 1..Len(t) |-> IF t[i].k = kind THEN DOT ELSE t[i]]

normalizeRegionalNumber(numberStr, config) ==
    LET normalized == RemoveAll(numberStr, config.thousandsSeparator)
    IN ParseFloatPrefix(IF config.decimalSeparator # "dot"
                        THEN ToPeriods(normalized, config.decimalSeparator)
                        ELSE normalized)

-----------------------------------------------------------------------------
(* Negative amounts: detectNegative.                                        *)

\* /^\(([^)]+)\)(.*)$/
PAREN_PATTERN == Cat(<<Cls({"lp"}), Run(Kinds \ {"rp"}, 1), Cls({"rp"}), Run(Kinds, 0)>>)
\* /^(?:[-\u2212\u2013\u2014]|minus\b|negative\b)\s*/i
PREFIX_PATTERN == Cat(<<Alt(<<Cls({"hyphen", "dash"}), Cat(<<Ws({"minus"}), WB>>),
                            Cat(<<Ws({"negative"}), WB>>)>>), WSS>>)

\* parenMatch[1] ends before the first closing parenthesis, parenMatch[2] starts after it
ParenCleaned(trimmed) ==
    LET close == Min({j \in 1..Len(trimmed) : trimmed[j].k = "rp"})
        innerContent == Trim(SubSeq(trimmed, 2, close - 1))
        trailingContent == Trim(SubSeq(trimmed, close + 1, Len(trimmed)))
    IN IF trailingContent # <<>> THEN innerContent \o <<SP>> \o trailingContent
       ELSE innerContent

\* what detectNegative returns, given the ends of the two patterns on the trimmed input
NegativeResult(trimmed, parenEnds, prefixEnds) ==
    IF \E k \in DOMAIN parenEnds : parenEnds[k] = Len(trimmed)
    THEN [isNegative |-> TRUE, cleanedInput |-> ParenCleaned(trimmed)]
    ELSE IF prefixEnds # <<>>
    THEN [isNegative |-> TRUE,
          cleanedInput |-> Trim(SubSeq(trimmed, prefixEnds[1] + 1, Len(trimmed)))]
    ELSE [isNegative |-> FALSE]

\* a variant whose prefix pattern is not anchored at the start of the input
detectNegativeAnywhere(input) ==
    LET trimmed == Trim(input)
        found == Exec(PREFIX_PATTERN, trimmed, 0)
    IN NegativeResult(trimmed, Ends(PAREN_PATTERN, trimmed, 0),
                      IF found = NoMatch THEN <<>> ELSE <<found.e>>)

detectNegative(input) ==
    LET trimmed == Trim(input)
    IN NegativeResult(trimmed, Ends(PAREN_PATTERN, trimmed, 0),
                      Ends(PREFIX_PATTERN, trimmed, 0))

-----------------------------------------------------------------------------
(* regexPipeline.ts.  A PipelineContext is a function from the names of    *)
(* the fields that are present to their values.                            *)

Has(ctx, field) == field \in DOMAIN ctx
\* { ...ctx, field: value }
With(ctx, field, value) == (field :> value) @@ ctx
\* Under "ref" a context carries the identity of the object: two contexts with one
\* ref are one object, and what is written to one is written to the other.
\* a variant that keeps the input without its negative indicator
FirstContextCleaned(input) ==
    [original |-> IF detectNegative(input).isNegative
                  THEN detectNegative(input).cleanedInput ELSE input,
     ref |-> 0]

\* let ctx = { original: input }
FirstContext(input) == [original |-> input, ref |-> 0]

\* a variant that hands back the object it is given
cloneShared(obj) == obj

\* { ...obj }: a new object with the fields of obj
clone(obj) == [f \in DOMAIN obj |-> IF f = "ref" THEN obj[f] + 1 ELSE obj[f]]

\* the symbols are named here by their ASCII names
SYMBOL_TO_CODE == ("$" :> "USD") @@ ("euro-sign" :> "EUR") @@ ("pound-sign" :> "GBP")
                  @@ ("yen-sign" :> "JPY") @@ ("rupee-sign" :> "INR")
                  @@ ("ruble-sign" :> "RUB") @@ ("won-sign" :> "KRW")
                  @@ ("baht-sign" :> "THB")

SYMBOL_REGEX == Cls({"sym"})

SMALL == [zero |-> 0, one |-> 1, two |-> 2, three |-> 3, four |-> 4, five |-> 5, six |-> 6,
          seven |-> 7, eight |-> 8, nine |-> 9, ten |-> 10, eleven |-> 11, twelve |-> 12,
          thirteen |-> 13, fourteen |-> 14, fifteen |-> 15, sixteen |-> 16,
          seventeen |-> 17, eighteen |-> 18, nineteen |-> 19, twenty |-> 20, thirty |-> 30,
          forty |-> 40, fifty |-> 50, sixty |-> 60, seventy |-> 70, eighty |-> 80,
          ninety |-> 90]
\* 100, 1e3, 1e6 and 1e9 in limbs
MAGNITUDE == [hundred |-> <<0, 100>>, thousand |-> <<0, 0, 1>>, million |-> <<0, 0, 0, 1>>,
              billion |-> <<0, 0, 0, 0, 1>>]

\* the body of the loop of wordsToNumber for one token, on [ok, total, current];
\* ok is FALSE once a token has made the function return null
WordsStep(st, token) ==
    IF ~st.ok THEN st
    ELSE IF TokIn(token, DOMAIN SMALL)
    THEN [st EXCEPT !.current = NumAdd(@, NumOfInt(SMALL[WordOf(token)]))]
    ELSE IF token = <<W("hundred")>>
    THEN [st EXCEPT !.current = NumMul(@, NumOfInt(100))]
    ELSE IF TokIn(token, DOMAIN MAGNITUDE)
    THEN [st EXCEPT !.total = NumAdd(@, NumMul(st.current, MAGNITUDE[WordOf(token)])),
                    !.current = <<>>]
    ELSE [st EXCEPT !.ok = FALSE]

\* the loop over the tokens lo..hi, in their order
RECURSIVE WordsLoop(_, _, _, _)
WordsLoop(tokens, lo, hi, st) ==
    IF lo > hi THEN st
    ELSE IF lo = hi THEN WordsStep(st, tokens[lo])
    ELSE LET mid == (lo + hi) \div 2
             left == WordsLoop(tokens, lo, mid, st)
         IN After(left, WordsLoop(tokens, mid + 1, hi, left))

\* words.replace(/ and /g, " "): an "and" with a space on both sides
DropAnd(t) ==
    [j \in 1..Len(t) |-> IF t[j] = W("and") /\ j > 1 /\ j < Len(t)
                            /\ t[j - 1].k = "sp" /\ t[j + 1].k = "sp"
                         THEN SP ELSE t[j]]

\* after the loop: return total + current, null when a token was unknown
WordsResult(loop) == IF loop.ok THEN Ok(NumAdd(loop.total, loop.current), "") ELSE Null

WordsTokens(tokens) ==
    WordsResult(WordsLoop(tokens, 1, Len(tokens),
                          [ok |-> TRUE, total |-> <<>>, current |-> <<>>]))

wordsToNumber(words) ==
    IF words = <<>> THEN Null ELSE WordsTokens(Tokens(Trim(DropAnd(SpacesForHyphens(words)))))

\* the first candidate that is a registry code, upper-cased; "undefined" if none
FirstIso(ms, i, input) ==
    LET upper(j) == toUpperCase(input[ms[j].e].w)
        found == {j \in i..Len(ms) : getCurrencyByCode(upper(j)) # NoCurrencyInfo}
    IN IF found = {} THEN UNDEF ELSE upper(Min(found))

\* the code of the first candidate the name map knows; "undefined" if none
FirstName(ms, i, input, nameToCode) ==
    LET code(j) == MapGet(nameToCode, input[ms[j].e].w)
        found == {j \in i..Len(ms) : code(j) # UNDEF}
    IN IF found = {} THEN UNDEF ELSE code(Min(found))

\* A step gives [ok, err, ctx: the context it returns, cache: the name-map cache it leaves]
Done(ctx, cache) == [ok |-> TRUE, err |-> "", ctx |-> ctx, cache |-> cache]
Raise(e, ctx, cache) == [ok |-> FALSE, err |-> e, ctx |-> ctx, cache |-> cache]

\* the name branch: the first word of four letters or more the name map knows
NameDetected(out, cache, name) ==
    Done(IF name # UNDEF THEN With(out, "currency", name) ELSE out, cache)

\* the name map is fetched (and built on the first use) once the name branch is reached
NameDetection(input, out, got) ==
    NameDetected(out, got.cache,
                 FirstName(MatchAll(Cat(<<WB, WLong, WB>>), input, 0), 1, input, got.map))

\* the ISO branch: the first three-letter word that is a registry code
IsoDetection(input, out, cache, iso) ==
    IF iso # UNDEF THEN Done(With(out, "currency", iso), cache)
    ELSE NameDetection(input, out, getNameToCodeMap(cache))

\* the symbol branch
SymbolDetection(input, out, cache, symbolMatch) ==
    IF symbolMatch # NoMatch
    THEN Done(With(out, "currency", SYMBOL_TO_CODE[input[symbolMatch.e].w]), cache)
    ELSE IsoDetection(input, out, cache,
                      FirstIso(MatchAll(Cat(<<WB, W3, WB>>), input, 0), 1, input))

currencyDetectionStep(input, ctx, cache) ==
    SymbolDetection(input, clone(ctx), cache, Exec(SYMBOL_REGEX, input, 0))

\* a variant in which the currency of the match replaces the one already set
Supersede(out, currency) == currency

\* out.currency ?? currency
Coalesce(out, currency) == IF Has(out, "currency") THEN out.currency ELSE currency

PLAIN_NUMBER_REGEX == Cat(<<WB, NUM, WB>>)

wordNumberRegex ==
    LET words == DOMAIN SMALL \cup DOMAIN MAGNITUDE
    IN Cat(<<WB, Ws(words), Star(Cat(<<SH1, Ws(words)>>)), WB>>)

\* The branches of numericDetectionStep, the last one first: each takes the result of its
\* sub-parser and hands over to the next branch when there is none.

\* worded numbers: wordsToNumber on the words wordNumberRegex found
WordsAmount(out, cache, parsed) ==
    Done(IF parsed.ok THEN With(out, "amount", parsed.value) ELSE out, cache)

WordsBranch(cleaned, out, cache, wordMatch) ==
    IF wordMatch = NoMatch THEN Done(out, cache)
    ELSE WordsAmount(out, cache, wordsToNumber(Slice(cleaned, wordMatch)))

\* fractional worded numbers
FractionalBranch(cleaned, out, cache, fractionalMatch) ==
    IF fractionalMatch.ok THEN Done(With(out, "amount", fractionalMatch.value), cache)
    ELSE WordsBranch(cleaned, out, cache, Exec(wordNumberRegex, cleaned, 0))

\* plain numbers: out.amount = parseFloat(numMatch[1])
PlainBranch(cleaned, out, cache, numMatch) ==
    IF numMatch # NoMatch
    THEN Done(With(out, "amount", parseFloat(Slice(cleaned, numMatch))), cache)
    ELSE FractionalBranch(cleaned, out, cache, matchFractionalWordedNumber(cleaned))

\* contextual phrases
ContextualMatched(cleaned, out, cache, contextualMatch) ==
    IF contextualMatch.ok
    THEN Done(With(With(out, "amount", contextualMatch.value),
                   "currency", Coalesce(out, contextualMatch.currency)), cache)
    ELSE PlainBranch(cleaned, out, cache, Exec(PLAIN_NUMBER_REGEX, cleaned, 0))

\* matchContextualPhrase fetches the name map unless its input is empty
ContextualBranch(cleaned, out, got) ==
    ContextualMatched(cleaned, out, got.cache, matchContextualPhrase(cleaned, got.map))

\* a variant that tries the plain number before the slang term and the contextual phrase
PlainBeforeSlang(cleaned, out, cache, slangMatch) ==
    IF Exec(PLAIN_NUMBER_REGEX, cleaned, 0) # NoMatch
    THEN PlainBranch(cleaned, out, cache, Exec(PLAIN_NUMBER_REGEX, cleaned, 0))
    ELSE IF slangMatch.ok
    THEN Done(With(With(out, "amount", slangMatch.value),
                   "currency", Coalesce(out, slangMatch.currency)), cache)
    ELSE ContextualBranch(cleaned, out,
                          IF cleaned = <<>> THEN [map |-> <<>>, cache |-> cache]
                          ELSE getNameToCodeMap(cache))

\* slang terms
SlangBranch(cleaned, out, cache, slangMatch) ==
    IF slangMatch.ok
    THEN Done(With(With(out, "amount", slangMatch.value),
                   "currency", Coalesce(out, slangMatch.currency)), cache)
    ELSE ContextualBranch(cleaned, out,
                          IF cleaned = <<>> THEN [map |-> <<>>, cache |-> cache]
                          ELSE getNameToCodeMap(cache))

\* numeric-word combos: the overflow of a combo leaves the step
ComboBranch(cleaned, ctx, cache, comboMatch) ==
    IF comboMatch.err = OverflowError THEN Raise(OverflowError, ctx, cache)
    ELSE IF comboMatch.ok THEN Done(With(clone(ctx), "amount", comboMatch.value), cache)
    ELSE SlangBranch(cleaned, clone(ctx), cache, matchSlangTerm(cleaned))

NumericCleaned(cleaned, ctx, cache) ==
    ComboBranch(cleaned, ctx, cache, matchNumericWordCombo(cleaned))

numericDetectionStep(input, ctx, cache) == NumericCleaned(removeCommas(input), ctx, cache)

patternSpecificStep(input, ctx, cache) ==
    LET out == clone(ctx)
    IN Done(IF Has(out, "matches") THEN out ELSE With(out, "matches", "{}"), cache)

\* the steps after currency detection; an error of a step ends the run
RunPattern(input, c2) == IF ~c2.ok THEN c2 ELSE patternSpecificStep(input, c2.ctx, c2.cache)
RunNumeric(input, c1) == RunPattern(input, numericDetectionStep(input, c1.ctx, c1.cache))

\* RegexPipeline.run with the default steps
run(input, cache) == RunNumeric(input, currencyDetectionStep(input, FirstContext(input), cache))

-----------------------------------------------------------------------------
(* parseAll.ts                                                             *)

\* [\d,]+(?:\.\d+)?
NumRun == Cat(<<Run({"num", "comma"}, 1), Opt(Cat(<<Cls({"dot"}), INT>>))>>)

SlangWords == {"buck", "bucks", "quid", "quids", "fiver", "fivers", "tenner", "tenners"}
NameWords == {"dollar", "dollars", "euro", "euros", "pound", "pounds", "yen",
              "rupee", "rupees"}
OneToTen == {"one", "two", "three", "four", "five", "six", "seven", "eight", "nine", "ten"}
WordedWords == (DOMAIN SMALL \cup DOMAIN MAGNITUDE) \ {"zero"}

MONETARY_PATTERNS == <<
    Cat(<<SYMBOL_REGEX, WSS, NumRun>>),
    Cat(<<NumRun, WSS, SYMBOL_REGEX>>),
    Cat(<<WB, W3, WSP, NumRun>>),
    Cat(<<NumRun, WSP, W3, WB>>),
    Cat(<<Opt(SYMBOL_REGEX), WSS, NUM, Ws({"k", "m", "b", "kn", "mn", "bn"}), WB>>),
    Cat(<<WB, Opt(Alt(<<Ws(OneToTen), INT>>)), WSS, Ws(SlangWords), WB>>),
    Cat(<<WB, Ws(SlangWords), WB>>),
    Cat(<<NumRun, WSP, Ws(NameWords \cup {"cent", "cents", "pennies", "pence"}), WB>>),
    Cat(<<WB, Ws(WordedWords), Star(Cat(<<SHP, Ws(WordedWords \cup {"and"})>>)), WSP,
          Alt(<<Ws(NameWords), W3>>), WB>>),
    Cat(<<WB, Ws({"a", "an"}), WSP,
          Opt(Cat(<<Ws({"hundred", "thousand", "million", "billion"}), WSP>>)),
          Ws(NameWords \cup {"buck", "bucks", "quid", "quids"}), WB>>),
    Cat(<<WB, Ws({"a", "an"}), WSP, Ws({"dollar", "euro", "pound", "buck", "quid"}),
          Opt(Cat(<<WSP, Ws({"and"}), WSP, INT, WSP,
                    Ws({"cent", "cents", "pennies", "pence"})>>)),
          WB>>) >>

\* a variant that puts the shorter of two matches with one start first
BeforeShortest(a, b) == IF a.start # b.start THEN a.start < b.start ELSE a.end < b.end

\* results.sort((a, b) => a.start !== b.start ? a.start - b.start : b.end - a.end)
\* (stable: elements that compare equal keep their order)
Before(a, b) == IF a.start # b.start THEN a.start < b.start ELSE a.end > b.end

\* the number of elements the sort puts before element i
Rank(results, i) ==
    Cardinality({j \in 1..Len(results) :
                   \/ Before(results[j], results[i])
                   \/ ~Before(results[i], results[j]) /\ j < i})

Sort(results) ==
    [k \in 1..Len(results) |->
        results[CHOOSE i \in 1..Len(results) : Rank(results, i) = k - 1]]

Complete(r) == Has(r, "currency") /\ Has(r, "amount")

-----------------------------------------------------------------------------
(* The texts and options of the calls.                                     *)

Phrases == <<
    \* $100
    <<SY("$"), N(<<1, 0, 0>>)>>,
    \* a dollar and 23 cents
    <<W("a"), SP, W("dollar"), SP, W("and"), SP, N(<<2, 3>>), SP, W("cents")>>,
    \* 5 bucks
    <<N(<<5>>), SP, W("bucks")>>,
    \* 10k
    <<N(<<1, 0>>), W("k")>>,
    \* $9999999999b
    <<SY("$"), N(<<9, 9, 9, 9, 9, 9, 9, 9, 9, 9>>), W("b")>>,
    \* $999999999999999999
    <<SY("$"), N(<<9, 9, 9, 9, 9, 9, 9, 9, 9, 9, 9, 9, 9, 9, 9, 9, 9, 9>>)>>,
    \* 9007199254740992 bucks
    <<N(<<9, 0, 0, 7, 1, 9, 9, 2, 5, 4, 7, 4, 0, 9, 9, 2>>), SP, W("bucks")>>,
    \* ninety one hundred trillion dollars
    <<W("ninety"), SP, W("one"), SP, W("hundred"), SP, W("trillion"), SP, W("dollars")>>,
    \* (euro sign)5 bucks
    <<SY("euro-sign"), N(<<5>>), SP, W("bucks")>>,
    \* try 5 dollars
    <<W("try"), SP, N(<<5>>), SP, W("dollars")>>,
    \* 5k bucks
    <<N(<<5>>), W("k"), SP, W("bucks")>>,
    \* i have 100
    <<W("i"), SP, W("have"), SP, N(<<1, 0, 0>>)>>,
    \* half a million
    <<W("half"), SP, W("a"), SP, W("million")>>,
    \* two hundred
    <<W("two"), SP, W("hundred")>>,
    \* 2 million dollars
    <<N(<<2>>), SP, W("million"), SP, W("dollars")>>,
    \* a buck fifty
    <<W("a"), SP, W("buck"), SP, W("fifty")>>,
    \* $1,234.56
    <<SY("$"), N(<<1>>), COMMA, N(<<2, 3, 4>>), DOT, N(<<5, 6>>)>>,
    \* 5 pounds 20 pence
    <<N(<<5>>), SP, W("pounds"), SP, N(<<2, 0>>), SP, W("pence")>>,
    \* 100 yen
    <<N(<<1, 0, 0>>), SP, W("yen")>>,
    \* 5 dollars 100 cents
    <<N(<<5>>), SP, W("dollars"), SP, N(<<1, 0, 0>>), SP, W("cents")>>,
    \* 50 eur
    <<N(<<5, 0>>), SP, W("eur")>> >>

Continuations == <<
    \* $100
    <<SY("$"), N(<<1, 0, 0>>)>>,
    \* a dollar and 23 cents
    <<W("a"), SP, W("dollar"), SP, W("and"), SP, N(<<2, 3>>), SP, W("cents")>>,
    \* $9999999999b
    <<SY("$"), N(<<9, 9, 9, 9, 9, 9, 9, 9, 9, 9>>), W("b")>>,
    \* 5 bucks
    <<N(<<5>>), SP, W("bucks")>> >>

MaxPhrases == 2

\* the texts of n phrases: a phrase, then continuations joined by " and "
RECURSIVE TextsOf(_)
TextsOf(n) ==
    IF n = 1 THEN {Phrases[i] : i \in 1..Len(Phrases)}
    ELSE {t \o <<SP, W("and"), SP>> \o Continuations[i] :
            t \in TextsOf(n - 1), i \in 1..Len(Continuations)}

\* texts without an amount and without a currency: the empty string, white space,
\* "hello world", "constructor"
Unrecognizable == {<<>>, <<SP>>, <<SP, SP, SP>>, <<W("hello"), SP, W("world")>>,
                   <<W("constructor")>>}

\* texts with a negative indicator: "-$100", "($100)", "minus 5 bucks", "(100) usd",
\* "-$999999999999999999", "(9007199254740992 bucks)", "$100 minus fees"
Signed == {<<HYPHEN, SY("$"), N(<<1, 0, 0>>)>>,
           <<LP, SY("$"), N(<<1, 0, 0>>), RP>>,
           <<W("minus"), SP, N(<<5>>), SP, W("bucks")>>,
           <<LP, N(<<1, 0, 0>>), RP, SP, W("usd")>>,
           <<HYPHEN, SY("$"),
             N(<<9, 9, 9, 9, 9, 9, 9, 9, 9, 9, 9, 9, 9, 9, 9, 9, 9, 9>>)>>,
           <<LP, N(<<9, 0, 0, 7, 1, 9, 9, 2, 5, 4, 7, 4, 0, 9, 9, 2>>), SP, W("bucks"), RP>>,
           <<SY("$"), N(<<1, 0, 0>>), SP, W("minus"), SP, W("fees")>>}

\* (euro sign)1.500, $1.500
Ambiguous == {<<SY("euro-sign"), N(<<1>>), DOT, N(<<5, 0, 0>>)>>,
              <<SY("$"), N(<<1>>), DOT, N(<<5, 0, 0>>)>>}

Texts == UNION {TextsOf(n) : n \in 1..MaxPhrases} \cup Unrecognizable \cup Signed
         \cup Ambiguous

DefaultCurrencies == {UNDEF, "EUR", "XYZ", ""}

\* The texts of the direct calls of parseWordedNumber: one to MaxWords words of the
\* vocabulary with a space between them, and "two million three hundred thousand",
\* "a hundred", "one hundred and fifty", "twenty-three thousand", "two dozen",
\* "ninety one hundred trillion"
WordedVocabulary == {"two", "twenty", "hundred", "thousand", "million", "trillion"}
MaxWords == 4
RECURSIVE WordedTextsOf(_)
WordedTextsOf(n) ==
    IF n = 1 THEN {<<W(w)>> : w \in WordedVocabulary}
    ELSE {t \o <<SP, W(w)>> : t \in WordedTextsOf(n - 1), w \in WordedVocabulary}
WordedTexts ==
    UNION {WordedTextsOf(n) : n \in 1..MaxWords}
    \cup {<<W("two"), SP, W("million"), SP, W("three"), SP, W("hundred"), SP, W("thousand")>>,
          <<W("a"), SP, W("hundred")>>,
          <<W("one"), SP, W("hundred"), SP, W("and"), SP, W("fifty")>>,
          <<W("twenty"), HYPHEN, W("three"), SP, W("thousand")>>,
          <<W("two"), SP, W("dozen")>>,
          <<W("ninety"), SP, W("one"), SP, W("hundred"), SP, W("trillion")>>}

\* The number strings of the direct calls of detectRegionalFormat: up to MaxGroups
\* runs of one to four digits with a comma, a period, an apostrophe or a space between
\* them, and "1,23,456.78", "1,23,45,678", "1,234,567.89", "1,234,", "1.5."
DigitGroups == {<<1>>, <<5, 6>>, <<5, 0, 0>>, <<1, 2, 3, 4>>}
Separators == {COMMA, DOT, APOS, SP}
MaxGroups == 3
RECURSIVE NumberStringsOf(_)
NumberStringsOf(n) ==
    IF n = 1 THEN {<<N(g)>> : g \in DigitGroups}
    ELSE {str \o <<sep, N(g)>> :
            str \in NumberStringsOf(n - 1), sep \in Separators, g \in DigitGroups}
NumberStrings ==
    UNION {NumberStringsOf(n) : n \in 1..MaxGroups}
    \cup {<<N(<<1>>), COMMA, N(<<2, 3>>), COMMA, N(<<4, 5, 6>>), DOT, N(<<7, 8>>)>>,
          <<N(<<1>>), COMMA, N(<<2, 3>>), COMMA, N(<<4, 5>>), COMMA, N(<<6, 7, 8>>)>>,
          <<N(<<1>>), COMMA, N(<<2, 3, 4>>), COMMA, N(<<5, 6, 7>>), DOT, N(<<8, 9>>)>>,
          <<N(<<1>>), COMMA, N(<<2, 3, 4>>), COMMA>>,
          <<N(<<1>>), DOT, N(<<5>>), DOT>>}

\* The texts of the direct calls of detectNegative: a negative indicator (a hyphen or
\* a dash, "minus", "negative") before, between and after amounts, with and without
\* white space around it, and parentheses around and beside amounts.
NegativeIndicators == {HYPHEN} \cup {DASH(d) : d \in {"minus sign", "en dash", "em dash"}}
                      \cup {W("minus"), W("negative")}
Gaps == {<<>>, <<SP>>}
Hundred == N(<<1, 0, 0>>)
SignedBodies == {<<Hundred>>, <<SY("$"), Hundred>>, <<Hundred, SP, W("usd")>>,
                 <<W("fees")>>}
IndicatorFirst == {lead \o Join(<<i>>, gap \o b) :
                     lead \in Gaps, i \in NegativeIndicators, gap \in Gaps,
                     b \in SignedBodies}
IndicatorInside == {Join(a \o gap, Join(<<i>>, gap \o b)) :
                      a \in SignedBodies, i \in NegativeIndicators, gap \in Gaps,
                      b \in SignedBodies}
IndicatorLast == {Join(a \o gap, <<i>>) :
                    a \in SignedBodies, i \in NegativeIndicators, gap \in Gaps}
\* "(100)", "($100)", " ( 100 ) ", "(100 usd)", "(100) usd", "(100)usd", "()", "(100",
\* "100)", "100 (100)", "(100)(100)", "(-100)", "-(100)", "()100)"
Parenthesized ==
    {<<LP, Hundred, RP>>, <<LP, SY("$"), Hundred, RP>>,
     <<SP, LP, SP, Hundred, SP, RP, SP>>, <<LP, Hundred, SP, W("usd"), RP>>,
     <<LP, Hundred, RP, SP, W("usd")>>, <<LP, Hundred, RP, W("usd")>>, <<LP, RP>>,
     <<LP, Hundred>>, <<Hundred, RP>>, <<Hundred, SP, LP, Hundred, RP>>,
     <<LP, Hundred, RP, LP, Hundred, RP>>, <<LP, HYPHEN, Hundred, RP>>,
     <<HYPHEN, LP, Hundred, RP>>, <<LP, RP, Hundred, RP>>}
SignedTexts == IndicatorFirst \cup IndicatorInside \cup IndicatorLast
               \cup Parenthesized \cup SignedBodies \cup {<<>>, <<SP>>}

\* The phrases of the direct calls of parseContextualPhrase and parseMinorUnitOnly:
\* "<major> <currency> [and] <minor> <unit>" and "<minor> <unit>".
\* 5, a, twenty, 0
Majors == {<<N(<<5>>)>>, <<W("a")>>, <<W("twenty")>>, <<N(<<0>>)>>}
\* 0, 5, 99, 100, 999, 1000, fifty
Minors == {<<N(<<0>>)>>, <<N(<<5>>)>>, <<N(<<9, 9>>)>>, <<N(<<1, 0, 0>>)>>, <<N(<<9, 9, 9>>)>>,
           <<N(<<1, 0, 0, 0>>)>>, <<W("fifty")>>}
CurrencyTokens == {"dollars", "pounds", "yen", "kwd", "euros"}
MinorUnitWords == {"cents", "pence"}
CompoundPhrase(major, currency, hasAnd, minor, unit) ==
    major \o <<SP, W(currency), SP>> \o (IF hasAnd THEN <<W("and"), SP>> ELSE <<>>)
          \o minor \o <<SP, W(unit)>>
CompoundPhrases ==
    {CompoundPhrase(major, currency, hasAnd, minor, unit) :
        major \in Majors, currency \in CurrencyTokens, hasAnd \in BOOLEAN,
        minor \in Minors, unit \in MinorUnitWords}
MinorUnitPhrases == {minor \o <<SP, W(unit)>> : minor \in Minors, unit \in MinorUnitWords}
MinorUnitDefaults == {UNDEF, "JPY", "CAD", "KWD", "XYZ"}

-----------------------------------------------------------------------------
(* The calls.                                                              *)

NoOutcome == [kind |-> "none", err |-> "", value |-> <<>>]
Returned(value) == [kind |-> "returned", err |-> "", value |-> value]
Threw(e) == [kind |-> "threw", err |-> e, value |-> <<>>]
NoContext == [original |-> <<>>]
NoScan == [pattern |-> 0, lastIndex |-> 0, results |-> <<>>, seen |-> {}]
NoSweep == [i |-> 0, sorted |-> <<>>, filtered |-> <<>>, lastEnd |-> -1]

MaxCallers == 2
Callers == 1..MaxCallers

\* a caller that is not inside getNameToCodeMap
IdleCaller == [pc |-> "idle", i |-> 0, map |-> <<>>]

Init == /\ nameToCodeCache = NullCache
        /\ op = "none"
        /\ pc = "idle"
        /\ text = <<>>
        /\ options = UNDEF
        /\ context = NoContext
        /\ received = NoContext
        /\ outcome = NoOutcome
        /\ scan = NoScan
        /\ sweep = NoSweep
        /\ callers = [c \in Callers |-> IdleCaller]

\* parseMoney(text, options) is called
CallParseMoney(t, defaultCurrency) ==
    /\ pc = "idle"
    /\ op' = "parseMoney"
    /\ text' = t
    /\ options' = defaultCurrency
    /\ pc' = "validate"
    /\ UNCHANGED <<nameToCodeCache, context, received, outcome, scan, sweep, callers>>

\* parseMoney is called a second time with the text and the options of the call that
\* has just ended; outcome keeps what that call gave until this one ends
CallParseMoneyAgain ==
    /\ pc = "done"
    /\ op = "parseMoney"
    /\ op' = "parseMoneyAgain"
    /\ pc' = "validate"
    /\ context' = NoContext
    /\ received' = NoContext
    /\ UNCHANGED <<nameToCodeCache, text, options, outcome, scan, sweep, callers>>

\* a variant of parseMoney that hands the text to the pipeline without looking at
\* options.defaultCurrency
ValidateDefaultSkipped ==
    /\ pc = "validate"
    /\ context' = FirstContext(text)
    /\ pc' = "currencyDetectionStep"
    /\ UNCHANGED <<nameToCodeCache, op, text, options, received, outcome, scan, sweep, callers>>

\* parseMoney validates options.defaultCurrency; run() makes the first context
ValidateDefault ==
    /\ pc = "validate"
    /\ IF options # UNDEF /\ getCurrencyByCode(options) = NoCurrencyInfo
       THEN /\ outcome' = Threw(StructuralError)
            /\ pc' = "done"
            /\ UNCHANGED context
       ELSE /\ context' = FirstContext(text)
            /\ pc' = "currencyDetectionStep"
            /\ UNCHANGED outcome
    /\ UNCHANGED <<nameToCodeCache, op, text, options, received, scan, sweep, callers>>

\* a step of run(): ctx = step(input, ctx).  The stages write to the object they
\* return only: the object they were given is as it was, unless it is that object.
Stage(name, result, next) ==
    /\ pc = name
    /\ received' = IF result.ctx.ref = context.ref THEN result.ctx ELSE context
    /\ nameToCodeCache' = result.cache
    /\ IF result.ok
       THEN /\ context' = result.ctx
            /\ pc' = next
            /\ UNCHANGED outcome
       ELSE /\ outcome' = Threw(result.err)
            /\ pc' = "done"
            /\ UNCHANGED context
    /\ UNCHANGED <<op, text, options, scan, sweep, callers>>

CurrencyDetection ==
    Stage("currencyDetectionStep", currencyDetectionStep(text, context, nameToCodeCache),
          "numericDetectionStep")

NumericDetection ==
    Stage("numericDetectionStep", numericDetectionStep(text, context, nameToCodeCache),
          "patternSpecificStep")

PatternSpecific ==
    Stage("patternSpecificStep", patternSpecificStep(text, context, nameToCodeCache),
          "return")

\* a variant of the return that puts options.defaultCurrency in the place of the currency
ReturnContextDefaulted ==
    /\ pc = "return"
    /\ outcome' = Returned(IF options = UNDEF THEN context
                           ELSE With(context, "currency", options))
    /\ pc' = "done"
    /\ UNCHANGED <<nameToCodeCache, op, text, options, context, received, scan, sweep, callers>>

\* run() returns the context and parseMoney returns it
ReturnContext ==
    /\ pc = "return"
    /\ outcome' = Returned(context)
    /\ pc' = "done"
    /\ UNCHANGED <<nameToCodeCache, op, text, options, context, received, scan, sweep, callers>>

\* parseAll(text) is called
CallParseAll(t) ==
    /\ pc = "idle"
    /\ op' = "parseAll"
    /\ text' = t
    /\ scan' = [pattern |-> 1, lastIndex |-> 0, results |-> <<>>, seen |-> {}]
    /\ pc' = "scan"
    /\ UNCHANGED <<nameToCodeCache, options, context, received, outcome, sweep, callers>>

\* results.push({ ...parsed, start, end, match })
Located(ctx, t, match) ==
    With(With(With(ctx, "start", match.s), "end", match.e), "match", Slice(t, match))

\* a loop body that takes a candidate whose parse threw for one that gave nothing
ScanBodySkipping(sc, t, match, parsed) ==
    IF <<match.s, match.e>> \in sc.seen \/ ~parsed.ok \/ ~Complete(parsed.ctx)
    THEN [threw |-> FALSE, err |-> "", scan |-> [sc EXCEPT !.lastIndex = NextIndex(match)]]
    ELSE [threw |-> FALSE, err |-> "",
          scan |-> [sc EXCEPT !.lastIndex = NextIndex(match),
                              !.seen = @ \cup {<<match.s, match.e>>},
                              !.results = Append(@, Located(parsed.ctx, t, match))]]

\* a loop body without the test for currency and amount: every parsed candidate is kept
ScanBodyKeepingAll(sc, t, match, parsed) ==
    IF <<match.s, match.e>> \in sc.seen
    THEN [threw |-> FALSE, err |-> "", scan |-> [sc EXCEPT !.lastIndex = NextIndex(match)]]
    ELSE IF ~parsed.ok THEN [threw |-> TRUE, err |-> parsed.err, scan |-> sc]
    ELSE [threw |-> FALSE, err |-> "",
          scan |-> [sc EXCEPT !.lastIndex = NextIndex(match),
                              !.seen = @ \cup {<<match.s, match.e>>},
                              !.results = Append(@, Located(parsed.ctx, t, match))]]

\* the body of the while loop for one match: the error that leaves parseAll, or the
\* scan the body leaves; parsed is what pipeline.run gives for the matched text
ScanBody(sc, t, match, parsed) ==
    IF <<match.s, match.e>> \in sc.seen
    THEN [threw |-> FALSE, err |-> "", scan |-> [sc EXCEPT !.lastIndex = NextIndex(match)]]
    ELSE IF ~parsed.ok THEN [threw |-> TRUE, err |-> parsed.err, scan |-> sc]
    ELSE IF Complete(parsed.ctx)
    THEN [threw |-> FALSE, err |-> "",
          scan |-> [sc EXCEPT !.lastIndex = NextIndex(match),
                              !.seen = @ \cup {<<match.s, match.e>>},
                              !.results = Append(@, Located(parsed.ctx, t, match))]]
    ELSE [threw |-> FALSE, err |-> "", scan |-> [sc EXCEPT !.lastIndex = NextIndex(match)]]

\* what the body of the while loop leaves for one match
ScanMatched(match, parsed, body) ==
    /\ nameToCodeCache' = IF <<match.s, match.e>> \in scan.seen
                          THEN nameToCodeCache ELSE parsed.cache
    /\ IF body.threw
       THEN /\ outcome' = Threw(body.err)
            /\ pc' = "done"
            /\ UNCHANGED scan
       ELSE /\ scan' = body.scan
            /\ UNCHANGED <<outcome, pc>>

\* const parsed = pipeline.run(match[0].trim())
ScanParsed(match, parsed) == ScanMatched(match, parsed, ScanBody(scan, text, match, parsed))

\* the end of a pattern's loop when exec gives null, else the body of the loop
ScanExec(match) ==
    IF match = NoMatch
    THEN /\ IF scan.pattern = Len(MONETARY_PATTERNS)
            THEN pc' = "sort" /\ UNCHANGED scan
            ELSE /\ scan' = [scan EXCEPT !.pattern = @ + 1, !.lastIndex = 0]
                 /\ UNCHANGED pc
         /\ UNCHANGED <<nameToCodeCache, outcome>>
    ELSE ScanParsed(match, run(Trim(Slice(text, match)), nameToCodeCache))

\* one pattern.exec(text) of the candidate loops, with the body of the while loop
ScanStep ==
    /\ pc = "scan"
    /\ ScanExec(Exec(MONETARY_PATTERNS[scan.pattern], text, scan.lastIndex))
    /\ UNCHANGED <<op, text, options, context, received, sweep, callers>>

\* results.sort(...)
SortResults ==
    /\ pc = "sort"
    /\ sweep' = [i |-> 1, sorted |-> Sort(scan.results), filtered |-> <<>>, lastEnd |-> -1]
    /\ pc' = "sweep"
    /\ UNCHANGED <<nameToCodeCache, op, text, options, context, received, outcome, scan, callers>>

\* a sweep that keeps every result, overlapping or not
KeepAll(sw, result) ==
    [sw EXCEPT !.filtered = Append(@, result), !.lastEnd = result.end]

\* a sweep that replaces the last kept result by every result that reaches further
KeepReplacing(sw, result) ==
    IF result.start >= sw.lastEnd
    THEN [sw EXCEPT !.filtered = Append(@, result), !.lastEnd = result.end]
    ELSE IF result.end > sw.lastEnd
    THEN [sw EXCEPT !.filtered = [@ EXCEPT ![Len(@)] = result], !.lastEnd = result.end]
    ELSE sw

\* the body of the loop that removes the overlapping matches
Keep(sw, result) ==
    IF result.start >= sw.lastEnd
    THEN [sw EXCEPT !.filtered = Append(@, result), !.lastEnd = result.end]
    ELSE IF result.end > sw.lastEnd
            /\ Complete(result) /\ ~Complete(sw.filtered[Len(sw.filtered)])
    THEN [sw EXCEPT !.filtered = [@ EXCEPT ![Len(@)] = result], !.lastEnd = result.end]
    ELSE sw

SweepStep ==
    /\ pc = "sweep"
    /\ sweep.i <= Len(sweep.sorted)
    /\ sweep' = [Keep(sweep, sweep.sorted[sweep.i]) EXCEPT !.i = @ + 1]
    /\ UNCHANGED <<nameToCodeCache, op, pc, text, options, context, received, outcome, scan,
                   callers>>

\* return filtered
ReturnFiltered ==
    /\ pc = "sweep"
    /\ sweep.i > Len(sweep.sorted)
    /\ outcome' = Returned(sweep.filtered)
    /\ pc' = "done"
    /\ UNCHANGED <<nameToCodeCache, op, text, options, context, received, scan, sweep, callers>>

\* the call is over; the name-index cache lives on
Finish ==
    /\ pc = "done"
    /\ pc' = "idle"
    /\ op' = "none"
    /\ text' = <<>>
    /\ options' = UNDEF
    /\ context' = NoContext
    /\ received' = NoContext
    /\ outcome' = NoOutcome
    /\ scan' = NoScan
    /\ sweep' = NoSweep
    /\ UNCHANGED <<nameToCodeCache, callers>>

\* a call of one of the exported pattern parsers: it returns its result or throws
DirectCall(name, t, defaultCurrency, result, cache) ==
    /\ pc = "idle"
    /\ op' = name
    /\ text' = t
    /\ options' = defaultCurrency
    /\ outcome' = IF result.ok
                  THEN Returned([currency |-> result.currency, value |-> result.value])
                  ELSE Threw(result.err)
    /\ nameToCodeCache' = cache
    /\ pc' = "done"
    /\ UNCHANGED <<context, received, scan, sweep, callers>>

\* parseContextualPhrase(t), given what getNameToCodeMap() returns
ContextualPhraseCall(t, got) ==
    DirectCall("parseContextualPhrase", t, UNDEF, parseContextualPhrase(t, got.map),
               IF NeedsNameToCodeMap(t, got.map) THEN got.cache ELSE nameToCodeCache)

CallParseContextualPhrase(t) == ContextualPhraseCall(t, getNameToCodeMap(nameToCodeCache))

\* parseMinorUnitOnly(t, defaultCurrency)
CallParseMinorUnitOnly(t, defaultCurrency) ==
    DirectCall("parseMinorUnitOnly", t, defaultCurrency,
               parseMinorUnitOnly(t, defaultCurrency), nameToCodeCache)

\* a call of a function that returns a value and touches nothing else
PureCall(name, t, value) ==
    /\ pc = "idle"
    /\ op' = name
    /\ text' = t
    /\ outcome' = Returned(value)
    /\ pc' = "done"
    /\ UNCHANGED <<nameToCodeCache, options, context, received, scan, sweep, callers>>

\* detectNegative(t)
CallDetectNegative(t) == PureCall("detectNegative", t, detectNegative(t))

\* parseWordedNumber(t)
CallParseWordedNumber(t) ==
    DirectCall("parseWordedNumber", t, UNDEF, parseWordedNumber(t), nameToCodeCache)

\* detectRegionalFormat(t) and normalizeRegionalNumber(t, formatConfig), as
\* parseRegionalFormat calls them
RegionalCall(t, formatConfig) ==
    PureCall("detectRegionalFormat", t,
             [config |-> formatConfig, amount |-> normalizeRegionalNumber(t, formatConfig)])
CallDetectRegionalFormat(t) == RegionalCall(t, detectRegionalFormat(t))

Next == \/ \E t \in Texts, d \in DefaultCurrencies : CallParseMoney(t, d)
        \/ CallParseMoneyAgain
        \/ \E t \in CompoundPhrases : CallParseContextualPhrase(t)
        \/ \E t \in MinorUnitPhrases, d \in MinorUnitDefaults : CallParseMinorUnitOnly(t, d)
        \/ \E t \in SignedTexts : CallDetectNegative(t)
        \/ \E t \in NumberStrings : CallDetectRegionalFormat(t)
        \/ \E t \in WordedTexts : CallParseWordedNumber(t)
        \/ ValidateDefault
        \/ CurrencyDetection
        \/ NumericDetection
        \/ PatternSpecific
        \/ ReturnContext
        \/ \E t \in Texts : CallParseAll(t)
        \/ ScanStep
        \/ SortResults
        \/ SweepStep
        \/ ReturnFiltered
        \/ Finish

Spec == Init /\ [][Next]_vars

-----------------------------------------------------------------------------
(* Callers of getNameToCodeMap whose steps interleave.  A JavaScript call   *)
(* runs to its end before the next one starts; the interleaving is every    *)
(* order in which several first accesses could reach the statements.        *)

parserIdle == <<op, pc, text, options, context, received, outcome, scan, sweep>>

\* getNameToCodeMap() is called
IndexCall(c) ==
    /\ callers[c].pc = "idle"
    /\ callers' = [callers EXCEPT ![c].pc = "check"]
    /\ UNCHANGED <<nameToCodeCache, parserIdle>>

\* if (nameToCodeCache) return nameToCodeCache; const map = {}; the loop that follows
\* starts with its call of getAllCurrencies()
IndexCheck(c) ==
    /\ callers[c].pc = "check"
    /\ callers' = [callers EXCEPT ![c] =
                      IF nameToCodeCache.isNull
                      THEN [pc |-> "loop", i |-> 1, map |-> <<>>]
                      ELSE [pc |-> "returned", i |-> 0, map |-> nameToCodeCache.map]]
    /\ nameToCodeCache' = IF nameToCodeCache.isNull
                          THEN [nameToCodeCache EXCEPT !.enumerations = @ + 1]
                          ELSE [nameToCodeCache EXCEPT !.reused = TRUE]
    /\ UNCHANGED parserIdle

\* a variant of the loop that fills the cache itself instead of a local map
IndexLoopShared(c) ==
    /\ callers[c].pc = "loop"
    /\ callers[c].i <= Len(getAllCurrencies)
    /\ callers' = [callers EXCEPT
                      ![c].map = AddCurrency(@, getAllCurrencies[callers[c].i]),
                      ![c].i = @ + 1]
    /\ nameToCodeCache' = [nameToCodeCache EXCEPT
                              !.isNull = FALSE,
                              !.map = AddCurrency(callers[c].map,
                                                  getAllCurrencies[callers[c].i])]
    /\ UNCHANGED parserIdle

\* one iteration of for (const cur of getAllCurrencies()), on the caller's own map
IndexLoop(c) ==
    /\ callers[c].pc = "loop"
    /\ callers[c].i <= Len(getAllCurrencies)
    /\ callers' = [callers EXCEPT
                      ![c].map = AddCurrency(@, getAllCurrencies[callers[c].i]),
                      ![c].i = @ + 1]
    /\ UNCHANGED <<nameToCodeCache, parserIdle>>

\* Object.assign(map, overrides)
IndexOverrides(c) ==
    /\ callers[c].pc = "loop"
    /\ callers[c].i > Len(getAllCurrencies)
    /\ callers' = [callers EXCEPT
                      ![c].map = MapAssign(@, overrides, 1, Len(overrides)),
                      ![c].pc = "publish"]
    /\ UNCHANGED <<nameToCodeCache, parserIdle>>

\* nameToCodeCache = map; return map
IndexPublish(c) ==
    /\ callers[c].pc = "publish"
    /\ nameToCodeCache' = [nameToCodeCache EXCEPT !.isNull = FALSE, !.map = callers[c].map]
    /\ callers' = [callers EXCEPT ![c].pc = "returned"]
    /\ UNCHANGED parserIdle

\* the caller has its map and may call again
IndexLeave(c) ==
    /\ callers[c].pc = "returned"
    /\ callers' = [callers EXCEPT ![c] = IdleCaller]
    /\ UNCHANGED <<nameToCodeCache, parserIdle>>

IndexNext == \/ \E c \in Callers : IndexCall(c)
             \/ \E c \in Callers : IndexCheck(c)
             \/ \E c \in Callers : IndexLoop(c)
             \/ \E c \in Callers : IndexOverrides(c)
             \/ \E c \in Callers : IndexPublish(c)
             \/ \E c \in Callers : IndexLeave(c)

SpecIndex == Init /\ [][IndexNext]_vars

-----------------------------------------------------------------------------
(* The properties.                                                         *)

ParseAllReturned == op = "parseAll" /\ pc = "done" /\ outcome.kind = "returned"
ParseMoneyReturned == op = "parseMoney" /\ pc = "done" /\ outcome.kind = "returned"
ParseMoneyThrew(e) == op = "parseMoney" /\ pc = "done" /\ outcome = Threw(e)

\* C1: the list parseAll returns is sorted ascending by start offset and pairwise
\* non-overlapping: each element ends at or before the start of the next one.
C1_SortedNonOverlapping ==
    ParseAllReturned =>
        \A i \in 1..(Len(outcome.value) - 1) :
            /\ outcome.value[i].start <= outcome.value[i + 1].start
            /\ outcome.value[i].end <= outcome.value[i + 1].start

\* a returned list of several spans, the sweep having removed overlapping candidates
C1_Witness ==
    /\ ParseAllReturned
    /\ Len(outcome.value) >= 2
    /\ Len(scan.results) > Len(outcome.value)
    /\ \E i, j \in 1..Len(scan.results) :
          /\ i # j
          /\ scan.results[i].start < scan.results[j].end
          /\ scan.results[j].start < scan.results[i].end

\* numeric detection of a parseMoney call has just returned: received is the context
\* it was given and context the one it gave back
AfterNumericDetection == op = "parseMoney" /\ pc = "patternSpecificStep"

\* the digits of a text made of a currency symbol and one run of digits
IsSymbolAndDigits(t) == Len(t) = 2 /\ t[1].k = "sym" /\ t[2].k = "num"

\* options.defaultCurrency passes the validation of parseMoney
ValidOptions == options = UNDEF \/ getCurrencyByCode(options) # NoCurrencyInfo

\* C2: every amount in a context that parseMoney returns is at most
\* Number.MAX_SAFE_INTEGER, whichever sub-parser produced it.
C2_AmountWithinCeiling ==
    ParseMoneyReturned /\ Has(outcome.value, "amount")
        => ~NumGt(outcome.value.amount, MAX_SAFE_INTEGER)

\* C3: a text written as a plain number whose value exceeds the ceiling, such as
\* "$999999999999999999", makes parseMoney throw ValueOverflowError and return no amount.
C3_PlainOverflowRaises ==
    /\ op = "parseMoney" /\ pc = "done" /\ ValidOptions
    /\ IsSymbolAndDigits(text)
    /\ NumGt(DigitsValue(text[2].ip), MAX_SAFE_INTEGER)
    => outcome = Threw(OverflowError)

\* the slang pattern matches the cleaned text and parsing the match overflows
SlangOverflows(cleaned) ==
    LET match == Exec(SLANG_REGEX, cleaned, 0)
    IN /\ match # NoMatch
       /\ parseSlangTerm(Slice(cleaned, match)).err = OverflowError

\* the contextual pattern matches the cleaned text and parsing its first match overflows
ContextualOverflows(cleaned, nameToCode) ==
    LET normalized == normalize(cleaned)
        matches == MatchAll(ContextualPattern(nameToCode), normalized, 0)
    IN /\ matches # <<>>
       /\ parseContextualPhrase(Slice(normalized, matches[1]), nameToCode).err
              = OverflowError

\* C4: when no numeric-word combo matches and the slang term or the contextual phrase
\* that matches the text overflows while it is parsed, the overflow error leaves the
\* pipeline: parseMoney throws ValueOverflowError and no lower sub-parser gives an amount.
C4_OverflowPropagates ==
    /\ op = "parseMoney" /\ pc = "done" /\ ValidOptions
    /\ LET cleaned == removeCommas(text)
       IN /\ matchNumericWordCombo(cleaned) = Null
          /\ \/ SlangOverflows(cleaned)
             \/ /\ Exec(SLANG_REGEX, cleaned, 0) = NoMatch
                /\ ContextualOverflows(cleaned, BuildNameToCodeMap)
    => outcome = Threw(OverflowError)

\* the candidate windows of a text: the trimmed matches of every monetary pattern
WindowsOf(t, matches) == {Trim(Slice(t, matches[k])) : k \in 1..Len(matches)}
Windows(t) ==
    UNION {WindowsOf(t, MatchAll(MONETARY_PATTERNS[i], t, 0)) : i \in 1..Len(MONETARY_PATTERNS)}

\* an error of the pipeline on a window is the error parseAll ended with
ThrownBy(parsed) == ~parsed.ok => outcome = Threw(parsed.err)

\* C5: if the pipeline throws on any candidate window of the text, parseAll throws that
\* error and returns no list, whatever the other candidates parse to.
C5_FailFast ==
    op = "parseAll" /\ pc = "done"
        => \A w \in Windows(text) : ThrownBy(run(w, nameToCodeCache))

\* parseAll threw the overflow of one candidate after it had collected a valid one
C5_Witness ==
    /\ op = "parseAll" /\ pc = "done"
    /\ outcome = Threw(OverflowError)
    /\ scan.results # <<>>
    /\ \E w \in Windows(text) : ~run(w, nameToCodeCache).ok

\* what the sub-parsers of numeric detection give for a text, in the order combo, slang
\* term, contextual phrase, plain number, fractional worded number, worded number
SubParsers(t) ==
    LET cleaned == removeCommas(t)
        numMatch == Exec(PLAIN_NUMBER_REGEX, cleaned, 0)
        wordMatch == Exec(wordNumberRegex, cleaned, 0)
    IN << matchNumericWordCombo(cleaned),
          matchSlangTerm(cleaned),
          matchContextualPhrase(cleaned, BuildNameToCodeMap),
          IF numMatch = NoMatch THEN Null ELSE Ok(parseFloat(Slice(cleaned, numMatch)), ""),
          matchFractionalWordedNumber(cleaned),
          IF wordMatch = NoMatch THEN Null ELSE wordsToNumber(Slice(cleaned, wordMatch)) >>
Matching(subs) == {i \in 1..Len(subs) : subs[i].ok}

\* the amount of the context is the one of the first of the results subs that matched
FirstGivesAmount(subs) ==
    IF Matching(subs) = {} THEN ~Has(context, "amount")
    ELSE Has(context, "amount") /\ context.amount = subs[Min(Matching(subs))].value

\* C6: the amount numeric detection gives is the one of the first sub-parser that
\* matches, in the order combo, slang term, contextual phrase, plain number, fractional
\* worded number, worded number; with no match there is no amount.
C6_FirstMatchGivesAmount == AfterNumericDetection => FirstGivesAmount(SubParsers(text))

\* two of the results subs match with different amounts and the earlier gave the amount
EarlierOfTwo(subs) ==
    \E i, j \in Matching(subs) :
        /\ i = Min(Matching(subs))
        /\ i < j
        /\ subs[i].value # subs[j].value
        /\ context.amount = subs[i].value

\* two sub-parsers match with different amounts, and the earlier one has given the amount
C6_Witness == AfterNumericDetection /\ EarlierOfTwo(SubParsers(text))

\* the first of combo, slang term and contextual phrase that matched; 0 if none did
FirstOfThree(subs) ==
    IF Matching(subs) \cap (1..3) = {} THEN 0 ELSE Min(Matching(subs) \cap (1..3))

\* the match, the first-th of the three, gives the amount and its currency
Supersedes(first, match) ==
    first # 0 =>
        /\ context.amount = match.value
        /\ Has(context, "currency")
        /\ first # 1 => context.currency = match.currency
SupersedesIn(subs) == Supersedes(FirstOfThree(subs), subs[FirstOfThree(subs)])

\* C7 (as stated): the combo, slang term or contextual phrase that matches supplies the
\* amount and the currency together, and its currency replaces the one that currency
\* detection had set.
C7_MatchSupersedesCurrency == AfterNumericDetection => SupersedesIn(SubParsers(text))

\* the match, the first-th of the three, gives the amount, and its currency when the
\* context received had none
FillsMissing(first, match) ==
    first # 0 =>
        /\ context.amount = match.value
        /\ Has(received, "currency")
               => Has(context, "currency") /\ context.currency = received.currency
        /\ ~Has(received, "currency") /\ first = 1 => ~Has(context, "currency")
        /\ ~Has(received, "currency") /\ first # 1
               => Has(context, "currency") /\ context.currency = match.currency
FillsMissingIn(subs) == FillsMissing(FirstOfThree(subs), subs[FirstOfThree(subs)])

\* C7 (amended): the match supplies the amount; a slang term or a contextual phrase
\* supplies its currency only when currency detection had set none, a currency already
\* detected is kept; a combo leaves the currency as it was.
C7_MatchFillsMissingCurrency == AfterNumericDetection => FillsMissingIn(SubParsers(text))

\* the match, a slang term or a contextual phrase, has another currency than the one
\* received, and the one received is kept
KeepsDetected(first, match) ==
    /\ first \in {2, 3}
    /\ Has(received, "currency")
    /\ received.currency # match.currency
    /\ context.currency = received.currency
KeepsDetectedIn(subs) == KeepsDetected(FirstOfThree(subs), subs[FirstOfThree(subs)])

\* a slang term or contextual phrase of one currency matched in a text where currency
\* detection had found another, and the detected one is kept
C7_Witness == AfterNumericDetection /\ KeepsDetectedIn(SubParsers(text))

C9_FlagExactlyWhenDefaulted ==
    ParseMoneyReturned =>
        IF options # UNDEF /\ ~Has(context, "currency")
        THEN /\ Has(outcome.value, "currencyWasDefault")
             /\ outcome.value.currencyWasDefault = TRUE
             /\ Has(outcome.value, "currency")
             /\ outcome.value.currency = options
        ELSE ~Has(outcome.value, "currencyWasDefault")

\* C10: with several callers inside getNameToCodeMap before the index is published,
\* every caller obtains an index with the key-to-code content of a complete build, and
\* the published index is either absent or complete, never partially built.
C10_IndexSafe ==
    /\ nameToCodeCache.isNull
           \/ MapContent(nameToCodeCache.map) = MapContent(BuildNameToCodeMap)
    /\ \A c \in Callers :
           callers[c].pc = "returned"
               => MapContent(callers[c].map) = MapContent(BuildNameToCodeMap)

\* one caller has published and returned its build while another, which had found the
\* cache empty, is still part-way through a redundant build of its own
C10_Witness ==
    \E c, d \in Callers :
        /\ callers[c].pc = "returned"
        /\ ~nameToCodeCache.isNull
        /\ callers[d].pc = "loop"
        /\ callers[d].i > 1
        /\ callers[d].i <= Len(getAllCurrencies)

C12_IndexNeverMutated ==
    [][~nameToCodeCache.isNull =>
          /\ ~nameToCodeCache'.isNull
          /\ nameToCodeCache'.map = nameToCodeCache.map]_vars

\* parseAll is scanning, has parsed windows already, and a reader has been handed
\* the index built by an earlier one
C12_Witness ==
    /\ op = "parseAll"
    /\ pc = "scan"
    /\ Len(scan.results) >= 1
    /\ ~nameToCodeCache.isNull
    /\ nameToCodeCache.reused

-----------------------------------------------------------------------------
(* Compound phrases and minor-unit phrases.                                 *)

\* what the parts of a phrase denote: the number a quantity stands for, the currency
\* a currency token names, the decimal-digit count of a currency
Denoted == (<<N(<<0>>)>> :> 0) @@ (<<N(<<5>>)>> :> 5) @@ (<<N(<<9, 9>>)>> :> 99)
           @@ (<<N(<<1, 0, 0>>)>> :> 100) @@ (<<N(<<9, 9, 9>>)>> :> 999)
           @@ (<<N(<<1, 0, 0, 0>>)>> :> 1000) @@ (<<W("fifty")>> :> 50)
           @@ (<<W("a")>> :> 1) @@ (<<W("twenty")>> :> 20)
Named == [dollars |-> "USD", pounds |-> "GBP", yen |-> "JPY", kwd |-> "KWD", euros |-> "EUR"]
DecimalDigits(code) == Registry[CHOOSE i \in 1..Len(Registry) : Registry[i].code = code].digits

\* the parts <<major, currency, hasAnd, minor, unit>> of a compound phrase
Parts == Majors \X CurrencyTokens \X BOOLEAN \X Minors \X MinorUnitWords
PartsOf(t) == CHOOSE p \in Parts : t = CompoundPhrase(p[1], p[2], p[3], p[4], p[5])

\* parseContextualPhrase(text) has returned or thrown
ContextualPhraseDone == op = "parseContextualPhrase" /\ pc = "done"
\* parseMinorUnitOnly(text, options) has returned or thrown
MinorUnitOnlyDone == op = "parseMinorUnitOnly" /\ pc = "done"

\* the outcome is an error of the structural kind: thrown, and not the overflow error
Rejected == outcome.kind = "threw" /\ outcome.err # OverflowError

MinorAtLeastScaleRejected(p) ==
    Denoted[p[4]] >= Pow10(DecimalDigits(Named[p[2]])) => Rejected

HasMinorUnit(code, unit) ==
    DecimalDigits(code) > 0 /\ (unit = "pence" => code = "GBP")

\* major + minor/scale, in thousandths
CompoundAmount(major, minor, scale) == NumOfMilli(major * 1000 + (minor * 1000) \div scale)

CompoundAmountReturned(p, code) ==
    (HasMinorUnit(code, p[5]) /\ Denoted[p[4]] < Pow10(DecimalDigits(code))) =>
        outcome = Returned([currency |-> code,
                            value |-> CompoundAmount(Denoted[p[1]], Denoted[p[4]],
                                                     Pow10(DecimalDigits(code)))])

-----------------------------------------------------------------------------
(* The elements of parseAll's list.                                         *)

\* the pipeline returns for the window without both of currency and amount
Incomplete(parsed) == parsed.ok /\ ~Complete(parsed.ctx)

\* no element of the list was made from the window
NotFrom(results, w) == \A i \in 1..Len(results) : Trim(results[i].match) # w

AllComplete(results) == \A i \in 1..Len(results) : Complete(results[i])

\* C16: every element of the list parseAll returns has both currency and amount, and
\* no element comes from a candidate window for which the pipeline resolves only one
\* of them or neither.
C16_ResultsComplete ==
    ParseAllReturned =>
        /\ AllComplete(outcome.value)
        /\ \A w \in Windows(text) :
               Incomplete(run(w, nameToCodeCache)) => NotFrom(outcome.value, w)

\* parseAll has returned a list with elements for a text one of whose candidate
\* windows gives an amount and no currency
C16_Witness ==
    /\ ParseAllReturned
    /\ outcome.value # <<>>
    /\ \E w \in Windows(text) :
           /\ Incomplete(run(w, nameToCodeCache))
           /\ Has(run(w, nameToCodeCache).ctx, "amount")

-----------------------------------------------------------------------------
(* Two calls of parseMoney on one text.                                     *)

\* the second call ends in this step
SecondCallEnds == op = "parseMoneyAgain" /\ pc # "done" /\ pc' = "done"

\* C17: parsing is idempotent: a second call of parseMoney on the same text (and
\* options) ends as the first one did, with identical currency, amount and original
\* when it returns and with the same error when it throws.
C17_Idempotent == [][SecondCallEnds => outcome' = outcome]_vars

\* a second call has returned a currency found by name, for a first call that found
\* the name index not built yet
C17_Witness ==
    /\ op = "parseMoneyAgain"
    /\ pc = "done"
    /\ outcome.kind = "returned"
    /\ Has(outcome.value, "currency")
    /\ Has(outcome.value, "amount")
    /\ nameToCodeCache.enumerations = 1
    /\ text = <<W("try"), SP, N(<<5>>), SP, W("dollars")>>

-----------------------------------------------------------------------------
(* The default currency of a call.                                          *)

\* a call of parseMoney is under way or has ended, and its options.defaultCurrency is
\* given and is no code of the registry
InvalidDefaultGiven ==
    /\ op \in {"parseMoney", "parseMoneyAgain"}
    /\ options # UNDEF
    /\ options \notin RegistryCodes

\* C18: parseMoney called with an options.defaultCurrency that is not a valid registry
\* code raises MoneyParseError before any parsing of the text takes place, for every
\* text: the call goes from the validation straight to its end, no pipeline stage is
\* given a context, and the end is the structural error.
C18_InvalidDefaultRejected ==
    InvalidDefaultGiven =>
        /\ pc \in {"validate", "done"}
        /\ context = NoContext
        /\ received = NoContext
        /\ pc = "done" => outcome = Threw(StructuralError)

\* parseMoney("$100", { defaultCurrency: "XYZ" }) has thrown, on a text the pipeline
\* parses in full
C18_Witness ==
    /\ InvalidDefaultGiven
    /\ pc = "done"
    /\ text = <<SY("$"), N(<<1, 0, 0>>)>>
    /\ options = "XYZ"
    /\ outcome = Threw(StructuralError)

-----------------------------------------------------------------------------
(* Texts in which there is nothing to recognize.                            *)

\* C19: parseMoney on a text with no recognizable amount or currency (the empty and
\* the whitespace-only string included), called without a default currency, raises no
\* error and returns a context in which currency and amount are both absent.
C19_NothingRecognized ==
    (op = "parseMoney" /\ pc = "done" /\ options = UNDEF /\ text \in Unrecognizable) =>
        /\ outcome.kind = "returned"
        /\ ~Has(outcome.value, "currency")
        /\ ~Has(outcome.value, "amount")

-----------------------------------------------------------------------------
(* The contexts of the stages.                                              *)

\* a stage of the pipeline returns or throws in this step
StageEnds ==
    /\ pc \in {"currencyDetectionStep", "numericDetectionStep", "patternSpecificStep"}
    /\ pc' # pc

\* C20: each pipeline stage leaves the context object it receives unchanged: after the
\* stage has returned (or thrown), every field of the object it was given has the value
\* it had before the call, and what the stage returns is another object.
C20_StageKeepsItsInput ==
    [][StageEnds => /\ received' = context
                    /\ pc' # "done" => context'.ref # context.ref]_vars

\* numeric detection has returned a context with an amount and has left the context
\* it was given, which has a currency, without one
C20_Witness ==
    /\ pc = "patternSpecificStep"
    /\ Has(received, "currency")
    /\ ~Has(received, "amount")
    /\ Has(context, "amount")
    /\ context.ref # received.ref

-----------------------------------------------------------------------------
(* Negative amounts.                                                        *)

DetectNegativeDone == pc = "done" /\ op = "detectNegative"

IsIndicator(lex) == lex.k \in {"hyphen", "dash"} \/ (lex.k = "w" /\ lex.w \in {"minus", "negative"})
\* the text begins with a negative indicator
IndicatorAtStart(t) == t # <<>> /\ IsIndicator(t[1])
\* the text begins with "(", something other than ")", and has a ")" after it
GroupAtStart(t) ==
    /\ Len(t) >= 3
    /\ t[1].k = "lp"
    /\ t[2].k # "rp"
    /\ \E j \in 3..Len(t) : t[j].k = "rp"

\* C21: a negative indicator that is not at the very start of the trimmed input does
\* not trigger detection: unless the trimmed input begins with an indicator or with a
\* parenthesized group, detectNegative returns isNegative = false.
C21_IndicatorNotAtStartIgnored ==
    (DetectNegativeDone /\ ~IndicatorAtStart(Trim(text)) /\ ~GroupAtStart(Trim(text)))
        => outcome = Returned([isNegative |-> FALSE])

\* detectNegative has returned isNegative = false for a text with an indicator after
\* its start ("100 minus fees", "100-100")
C21_Witness ==
    /\ DetectNegativeDone
    /\ \E i \in 2..Len(Trim(text)) : IsIndicator(Trim(text)[i])
    /\ ~IndicatorAtStart(Trim(text))
    /\ ~GroupAtStart(Trim(text))
    /\ outcome = Returned([isNegative |-> FALSE])

\* the context the pipeline gives for the cleaned input of a text that is marked negative
CleanedContext(t) == run(detectNegative(t).cleanedInput, nameToCodeCache).ctx

\* C22: when the negative pre-pass marks the input and an amount is resolved, the
\* context parseMoney returns has isNegative = true and its amount is the negation of
\* the amount parsed from the cleaned input; otherwise isNegative is absent.  (Amounts
\* are magnitudes here: the sign of a returned amount is what isNegative says.)
C22_NegativeMarked ==
    ParseMoneyReturned =>
        IF detectNegative(text).isNegative /\ Has(outcome.value, "amount")
        THEN /\ Has(outcome.value, "isNegative")
             /\ outcome.value.isNegative = TRUE
             /\ outcome.value.amount = CleanedContext(text).amount
        ELSE ~Has(outcome.value, "isNegative")

-----------------------------------------------------------------------------
(* Regional formats.                                                        *)

DetectRegionalDone == pc = "done" /\ op = "detectRegionalFormat"

\* exactly one period, no comma, no apostrophe, and a run of three or more digits
\* right after the period
SinglePeriodLong(t) ==
    /\ CountOf(t, "dot") = 1
    /\ ~Includes(t, "comma")
    /\ ~Includes(t, "apos")
    /\ LastIndexOf(t, "dot") < Len(t)
    /\ t[LastIndexOf(t, "dot") + 1].k = "num"
    /\ Len(t[LastIndexOf(t, "dot") + 1].ip) >= 3

ManyCommasOnly(t) ==
    /\ CountOf(t, "comma") >= 2
    /\ \A i \in 1..Len(t) : t[i].k \in {"num", "comma"}

\* the string ends in a comma and one or two digits
ShortTail(t) == TrailingDigits(t, "comma") \in {1, 2}

\* C29: every numeric string with two or more commas and no period, apostrophe or space
\* is classified by detectRegionalFormat as US, the comma being the thousands separator.
C29_ManyCommasAreThousands ==
    (DetectRegionalDone /\ ManyCommasOnly(text)) => outcome.value.config = US

\* C29, amended: every such string that does not end in a comma followed by one or two
\* digits is classified as US, the comma being the thousands separator.
C29_ManyCommasWithoutShortTail ==
    (DetectRegionalDone /\ ManyCommasOnly(text) /\ ~ShortTail(text))
        => /\ outcome.value.config.type = "us"
           /\ outcome.value.config.thousandsSeparator = "comma"

\* detectRegionalFormat has answered US for a string with two commas and three or
\* four digits at its end ("1,500,500")
C29_Witness ==
    /\ DetectRegionalDone
    /\ ManyCommasOnly(text)
    /\ TrailingDigits(text, "comma") >= 3
    /\ outcome.value.config = US

-----------------------------------------------------------------------------
(* The context parseMoney returns.                                          *)

\* C24: whenever currency is set in a context that parseMoney returns, it is the code
\* of a currency of the registry, whether it came from a symbol, an ISO token, the
\* name index, a slang term or options.defaultCurrency.
C24_CurrencyIsRegistryCode ==
    (ParseMoneyReturned /\ Has(outcome.value, "currency"))
        => outcome.value.currency \in RegistryCodes

\* C25: original in the context parseMoney returns is the input text exactly as it was
\* given, also when the text has a negative indicator and when a default currency is
\* given.
C25_OriginalIsInput ==
    ParseMoneyReturned => outcome.value.original = text

\* parseMoney has returned for a text that begins with a negative indicator, called
\* with a default currency: original is the whole text
C25_Witness ==
    /\ ParseMoneyReturned
    /\ detectNegative(text).isNegative
    /\ options # UNDEF
    /\ Has(outcome.value, "amount")
    /\ outcome.value.original = text

-----------------------------------------------------------------------------
(* The overlap resolution of parseAll.                                      *)

\* a comes before b: the smaller start, and of two with one start the greater end
Precedes(a, b) == a.start < b.start \/ (a.start = b.start /\ a.end >= b.end)
Overlap(a, b) == a.start < b.end /\ b.start < a.end

\* the positions, in a visiting order, of the candidates that are kept when a candidate
\* is kept exactly if it starts at or after the end of the one kept last before it
KeptOf(visited) ==
    CHOOSE K \in SUBSET (1..Len(visited)) :
        \A i \in 1..Len(visited) :
            i \in K <=> LET earlier == {j \in K : j < i}
                        IN earlier = {} \/ visited[i].start >= visited[Max(earlier)].end

\* C26: the overlap resolution visits the complete candidates by start ascending and,
\* for one start, by end descending, and keeps a candidate exactly if its start is at or
\* after the end of the one kept before it; so of overlapping candidates the one that
\* starts first is kept, and of those with one start the longest.
C26_GreedyByStartThenLength ==
    ParseAllReturned =>
        /\ Len(sweep.sorted) = Len(scan.results)
        /\ {sweep.sorted[i] : i \in 1..Len(sweep.sorted)}
             = {scan.results[i] : i \in 1..Len(scan.results)}
        /\ \A i \in 1..Len(sweep.sorted) : Complete(sweep.sorted[i])
        /\ \A i, j \in 1..Len(sweep.sorted) :
              i < j => Precedes(sweep.sorted[i], sweep.sorted[j])
        /\ outcome.value = Pick(sweep.sorted, KeptOf(sweep.sorted))
        /\ \A i \in 1..Len(scan.results) :
              (\A k \in 1..Len(outcome.value) : outcome.value[k] # scan.results[i])
                 => \E k \in 1..Len(outcome.value) :
                       /\ Overlap(outcome.value[k], scan.results[i])
                       /\ Precedes(outcome.value[k], scan.results[i])

\* parseAll has returned after candidates with one start and different ends, and
\* candidates that overlap a kept one, were found; the longest of the first is kept
C26_Witness ==
    /\ ParseAllReturned
    /\ Len(outcome.value) >= 1
    /\ \E i, j \in 1..Len(scan.results) :
          /\ scan.results[i].start = scan.results[j].start
          /\ scan.results[i].end > scan.results[j].end
          /\ \E k \in 1..Len(outcome.value) : outcome.value[k] = scan.results[i]
    /\ \E i, j \in 1..Len(scan.results) :
          /\ scan.results[i].start < scan.results[j].start
          /\ scan.results[j].start < scan.results[i].end

\* the sweep is at a result that starts before the end of the one kept last
AtOverlapping ==
    /\ op = "parseAll" /\ pc = "sweep"
    /\ sweep.i <= Len(sweep.sorted)
    /\ sweep.sorted[sweep.i].start < sweep.lastEnd

\* the conditions of the replacement branch hold for the result the sweep is at
ReplacementTaken ==
    /\ AtOverlapping
    /\ sweep.sorted[sweep.i].end > sweep.lastEnd
    /\ Complete(sweep.sorted[sweep.i])
    /\ ~Complete(sweep.filtered[Len(sweep.filtered)])

\* C27: the replacement branch of the sweep (the current result complete and the one
\* kept before it not) is never taken, and a result once kept is never replaced: every
\* step of the sweep leaves the results kept so far in place.
C27_NeverReplaced ==
    [][(op = "parseAll" /\ pc = "sweep")
         => /\ ~ReplacementTaken
            /\ SubSeq(sweep'.filtered, 1, Len(sweep.filtered)) = sweep.filtered]_vars

\* the sweep is at a result that starts inside the one kept last and reaches further
C27_Witness ==
    /\ AtOverlapping
    /\ sweep.sorted[sweep.i].end > sweep.lastEnd

-----------------------------------------------------------------------------
(* Worded numbers.                                                          *)

WordedNumberDone == pc = "done" /\ op = "parseWordedNumber"

\* the words of a text of words with one space between them
WordsOf(t) == [i \in 1..((Len(t) + 1) \div 2) |-> t[2 * i - 1].w]
IsWords(t, vocabulary) ==
    /\ Len(t) % 2 = 1
    /\ \A i \in 1..Len(t) : IF i % 2 = 1 THEN t[i].k = "w" /\ t[i].w \in vocabulary
                                          ELSE t[i].k = "sp"

\* an empty subtotal counts as 1 when it is multiplied
OrOne(subtotal) == IF subtotal = <<>> THEN NumOfInt(1) ELSE subtotal

\* the running total and the subtotal after the first n words: a number word adds to
\* the subtotal, "hundred" multiplies it, a greater scale word multiplies it, adds it
\* to the total and empties it
RECURSIVE Accumulated(_, _)
Accumulated(words, n) ==
    IF n = 0 THEN [total |-> <<>>, subtotal |-> <<>>]
    ELSE LET before == Accumulated(words, n - 1)
             word == words[n]
         IN IF word \in DOMAIN BASIC_NUMBERS
            THEN [before EXCEPT !.subtotal = NumAdd(@, NumOfInt(BASIC_NUMBERS[word]))]
            ELSE IF word \in DOMAIN TENS
            THEN [before EXCEPT !.subtotal = NumAdd(@, NumOfInt(TENS[word]))]
            ELSE IF word = "hundred"
            THEN [before EXCEPT !.subtotal = NumMul(OrOne(@), NumOfInt(100))]
            ELSE [total |-> NumAdd(before.total,
                                   NumMul(OrOne(before.subtotal), SCALES[word])),
                  subtotal |-> <<>>]

\* total + subtotal after the last word
WordedValue(t) ==
    LET last == Accumulated(WordsOf(t), Len(WordsOf(t)))
    IN NumAdd(last.total, last.subtotal)

-----------------------------------------------------------------------------
(* Overflow of negative amounts.                                            *)

\* the text has a run of digits whose value exceeds the ceiling
DigitsAboveCeiling(t) ==
    \E i \in 1..Len(t) : t[i].k = "num" /\ NumGt(DigitsValue(t[i].ip), MAX_SAFE_INTEGER)

\* C30: the overflow guard applies to the magnitude: a negative input (in parentheses or
\* after a negative token) whose absolute value exceeds Number.MAX_SAFE_INTEGER makes
\* parseMoney throw ValueOverflowError, so that no amount below -MAX_SAFE_INTEGER is
\* returned.  (Amounts are magnitudes here.)
C30_NegativeOverflowRaises ==
    (op = "parseMoney" /\ pc = "done" /\ ValidOptions
        /\ detectNegative(text).isNegative /\ DigitsAboveCeiling(text))
        => outcome = Threw(OverflowError)

====
